---- MODULE Spec2Model ----
(***************************************************************************)
(* Directory Scanner CLI (the script embedded in                           *)
(* foundation-javascript-cli/day-09-logger-tool/README.md, lines 35-476):  *)
(* size filter parser, name pattern matcher, filter pipeline and the       *)
(* recursive traversal scanDirectory.                                      *)
(*                                                                         *)
(* Strings are sequences of one-character strings.  An optional value      *)
(* (null in the script) is a sequence of length 0, a present value v is    *)
(* <<v>>.  An exception is a result record whose field throws is TRUE.      *)
(***************************************************************************)
EXTENDS Integers, Sequences, FiniteSets, TLC

VARIABLES
    pc,       \* position of the run: which call is pending / finished
    call,     \* arguments of the pure function under call
    ret,      \* what the pure function returned (or threw)
    fs,       \* the directory tree below the root (fixed during a scan)
    options,  \* the options object parseArguments built
    scan,     \* scanDirectory's recursion: stack, listings, warnings, reads
    console,  \* the lines main printed, in order
    exitCode, \* the code of process.exit, once main has called it
    manager   \* the ConfigManager object of the Config Manager CLI

vars == <<pc, call, ret, fs, options, scan, console, exitCode, manager>>

----------------------------------------------------------------------------
(* Strings *)

None == <<>>
\* a variable the specification at hand does not use
Idle == <<>>
Some(v) == <<v>>
IsSet(o) == Len(o) > 0

UpperCase ==
    <<"A", "B", "C", "D", "E", "F", "G", "H", "I", "J", "K", "L", "M", "N",
      "O", "P", "Q", "R", "S", "T", "U", "V", "W", "X", "Y", "Z">>
LowerCase ==
    <<"a", "b", "c", "d", "e", "f", "g", "h", "i", "j", "k", "l", "m", "n",
      "o", "p", "q", "r", "s", "t", "u", "v", "w", "x", "y", "z">>

\* String.prototype.toLowerCase / toUpperCase on one character
LowerChar(c) ==
    IF \E i \in 1..Len(UpperCase) : UpperCase[i] = c
    THEN LowerCase[CHOOSE i \in 1..Len(UpperCase) : UpperCase[i] = c]
    ELSE c

UpperChar(c) ==
    IF \E i \in 1..Len(LowerCase) : LowerCase[i] = c
    THEN UpperCase[CHOOSE i \in 1..Len(LowerCase) : LowerCase[i] = c]
    ELSE c

toLowerCase(s) == [i \in 1..Len(s) |-> LowerChar(s[i])]
toUpperCase(s) == [i \in 1..Len(s) |-> UpperChar(s[i])]

\* String.prototype.includes: needle occurs as a contiguous run of hay
includes(hay, needle) ==
    \E i \in 0..(Len(hay) - Len(needle)) :
        \A k \in 1..Len(needle) : hay[i + k] = needle[k]

\* all sequences over S of length at most n
RECURSIVE SeqsUpTo(_, _)
SeqsUpTo(S, n) ==
    IF n = 0 THEN {<<>>}
    ELSE LET shorter == SeqsUpTo(S, n - 1)
         IN shorter \cup {Append(s, c) : s \in {t \in shorter : Len(t) = n - 1}, c \in S}

Digits == <<"0", "1", "2", "3", "4", "5", "6", "7", "8", "9">>
IsDigit(c) == \E i \in 1..10 : Digits[i] = c
DigitValue(c) == (CHOOSE i \in 1..10 : Digits[i] = c) - 1

----------------------------------------------------------------------------
(* matchesNamePattern: the glob is rewritten into regular-expression source *)
(* text and compiled with new RegExp(source, 'i').  The regular-expression  *)
(* language is modelled for source text over letters, '.', '*' and '(':     *)
(* the characters the pattern alphabet PatternChars below can produce.      *)

\* pattern.replace(/\*/g, '.*').replace(/\?/g, '.')
RECURSIVE globToRegexSource(_)
globToRegexSource(pattern) ==
    IF pattern = <<>> THEN <<>>
    ELSE LET c == Head(pattern)
             piece == IF c = "*" THEN <<".", "*">>
                      ELSE IF c = "?" THEN <<".">>
                      ELSE <<c>>
         IN piece \o globToRegexSource(Tail(pattern))

\* new RegExp(source): an item is an atom ('.' or a literal character) with
\* an optional star.  '(' opens a group that nothing closes (SyntaxError:
\* unterminated group); a star with no atom before it is a SyntaxError too.
RECURSIVE RegExpCompile(_, _)
RegExpCompile(source, items) ==
    IF source = <<>> THEN [throws |-> FALSE, items |-> items]
    ELSE LET c == Head(source)
         IN IF c = "("
            THEN [throws |-> TRUE, items |-> <<>>]
            ELSE IF c = "*"
            THEN IF items = <<>> \/ items[Len(items)].star
                 THEN [throws |-> TRUE, items |-> <<>>]
                 ELSE RegExpCompile(Tail(source),
                                    [items EXCEPT ![Len(items)].star = TRUE])
            ELSE RegExpCompile(Tail(source),
                               Append(items, [any |-> c = ".", c |-> c, star |-> FALSE]))

\* one atom against one character, without the 'i' flag
AtomMatchesCaseSensitive(item, ch) ==
    IF item.any THEN TRUE ELSE item.c = ch

\* one atom against one character, under the 'i' flag
AtomMatches(item, ch) ==
    IF item.any THEN TRUE ELSE LowerChar(item.c) = LowerChar(ch)

\* the items from k on match name from position j on (a prefix of the rest)
RECURSIVE MatchHere(_, _, _, _)
MatchHere(items, k, name, j) ==
    IF k > Len(items) THEN TRUE
    ELSE IF items[k].star
    THEN \E m \in j..(Len(name) + 1) :
            /\ \A x \in j..(m - 1) : AtomMatches(items[k], name[x])
            /\ MatchHere(items, k + 1, name, m)
    ELSE /\ j <= Len(name)
         /\ AtomMatches(items[k], name[j])
         /\ MatchHere(items, k + 1, name, j + 1)

\* RegExp.prototype.test: a match may start at any position of the string
RegExpTest(items, name) ==
    \E start \in 1..(Len(name) + 1) : MatchHere(items, 1, name, start)

Returned(v) == [throws |-> FALSE, value |-> v]
Thrown == [throws |-> TRUE, value |-> FALSE]

matchesNamePattern(fileName, pattern) ==
    IF ~IsSet(pattern) \/ pattern[1] = <<>> THEN Returned(TRUE)
    ELSE LET regex == RegExpCompile(globToRegexSource(pattern[1]), <<>>)
         IN IF regex.throws THEN Thrown
            ELSE Returned(RegExpTest(regex.items, fileName))

----------------------------------------------------------------------------
(* parseSizeFilter.  A byte count is a rational: the numerator is kept in   *)
(* two limbs of 20 bits (value hi * 2^20 + lo) so that products with the    *)
(* GB multiplier stay exact, as they do in the script's doubles; den is the *)
(* power of ten of the fractional digits.                                   *)

Limb == 1024 * 1024

ToBig(n) == [hi |-> n \div Limb, lo |-> n % Limb]

\* b * k for a small natural k
BigScale(b, k) ==
    LET low == b.lo * k
    IN [hi |-> b.hi * k + (low \div Limb), lo |-> low % Limb]

\* -1, 0, 1 as a < b, a = b, a > b
BigCompare(a, b) ==
    IF a.hi < b.hi THEN -1
    ELSE IF a.hi > b.hi THEN 1
    ELSE IF a.lo < b.lo THEN -1
    ELSE IF a.lo > b.lo THEN 1
    ELSE 0

\* the table with decimal multipliers
multipliersDecimal(unit) ==
    IF unit = <<"B">> THEN Some(1)
    ELSE IF unit = <<"K", "B">> THEN Some(1000)
    ELSE IF unit = <<"M", "B">> THEN Some(1000 * 1000)
    ELSE IF unit = <<"G", "B">> THEN Some(1000 * 1000 * 1000)
    ELSE None

\* const multipliers = { B: 1, KB: 1024, MB: 1024 * 1024, GB: 1024 * 1024 * 1024 }
multipliers(unit) ==
    IF unit = <<"B">> THEN Some(1)
    ELSE IF unit = <<"K", "B">> THEN Some(1024)
    ELSE IF unit = <<"M", "B">> THEN Some(1024 * 1024)
    ELSE IF unit = <<"G", "B">> THEN Some(1024 * 1024 * 1024)
    ELSE None

\* the integer a run of digits denotes
RECURSIVE DigitsValue(_)
DigitsValue(ds) ==
    IF ds = <<>> THEN 0
    ELSE 10 * DigitsValue(SubSeq(ds, 1, Len(ds) - 1)) + DigitValue(ds[Len(ds)])

RECURSIVE Pow10(_)
Pow10(n) == IF n = 0 THEN 1 ELSE 10 * Pow10(n - 1)

\* \d+ from position p: the last position of the longest run of digits
\* starting at p (p - 1 when there is none)
RECURSIVE DigitsEnd(_, _)
DigitsEnd(s, p) ==
    IF p <= Len(s) /\ IsDigit(s[p]) THEN DigitsEnd(s, p + 1) ELSE p - 1

NoSizeFilter == [operator |-> <<>>, bytes |-> [hi |-> 0, lo |-> 0, den |-> 1]]

\* filterStr.match(/^([><=]=?)(\d+(?:\.\d+)?)(KB|MB|GB|B)?$/i), then
\* Number(sizeStr) * (multipliers[unit.toUpperCase()] || 1)
parseSizeFilter(filterStr) ==
    LET n == Len(filterStr)
        opLen == IF n >= 2 /\ filterStr[2] = "=" THEN 2 ELSE 1
        intEnd == DigitsEnd(filterStr, opLen + 1)
        hasFrac == /\ intEnd + 1 <= n
                   /\ filterStr[intEnd + 1] = "."
                   /\ DigitsEnd(filterStr, intEnd + 2) >= intEnd + 2
        numEnd == IF hasFrac THEN DigitsEnd(filterStr, intEnd + 2) ELSE intEnd
        unit == SubSeq(filterStr, numEnd + 1, n)
        match == /\ n >= 1
                 /\ filterStr[1] \in {">", "<", "="}
                 /\ intEnd >= opLen + 1
                 /\ \/ unit = <<>>
                    \/ toUpperCase(unit) \in {<<"K", "B">>, <<"M", "B">>, <<"G", "B">>, <<"B">>}
        intDigits == SubSeq(filterStr, opLen + 1, intEnd)
        fracDigits == IF hasFrac THEN SubSeq(filterStr, intEnd + 2, numEnd) ELSE <<>>
        size == DigitsValue(intDigits \o fracDigits)
        mult == multipliers(toUpperCase(IF unit = <<>> THEN <<"B">> ELSE unit))
        bytes == BigScale(ToBig(IF IsSet(mult) THEN mult[1] ELSE 1), size)
    IN IF ~match
       THEN [throws |-> TRUE, value |-> NoSizeFilter]
       ELSE [throws |-> FALSE,
             value |-> [operator |-> SubSeq(filterStr, 1, opLen),
                        bytes |-> [hi |-> bytes.hi, lo |-> bytes.lo,
                                   den |-> Pow10(Len(fracDigits))]]]

----------------------------------------------------------------------------
(* The filter pipeline *)

\* path.extname of an entry name: from the last '.' on, unless there is none
\* or it is the name's first character
extname(name) ==
    LET dots == {k \in 1..Len(name) : name[k] = "."}
        lastDot == CHOOSE k \in dots : \A m \in dots : m <= k
    IN IF dots = {} THEN <<>>
       ELSE IF lastDot = 1 THEN <<>>
       ELSE SubSeq(name, lastDot, Len(name))

\* the extension compared as it is spelled
matchesExtensionCaseSensitive(filePath, extensions) ==
    IF extensions = {} THEN TRUE
    ELSE extname(filePath) \in extensions

matchesExtension(filePath, extensions) ==
    IF extensions = {} THEN TRUE
    ELSE toLowerCase(extname(filePath)) \in extensions

\* the comparison the switch selects; any other operator passes
matchesSizeFilter(fileSize, sizeFilter) ==
    IF ~IsSet(sizeFilter) THEN TRUE
    ELSE LET operator == sizeFilter[1].operator
             bytes == sizeFilter[1].bytes
             cmp == BigCompare(BigScale(ToBig(fileSize), bytes.den), bytes)
         IN IF operator = <<">">> THEN cmp > 0
            ELSE IF operator = <<"<">> THEN cmp < 0
            ELSE IF operator = <<"=">> THEN cmp = 0
            ELSE IF operator = <<">", "=">> THEN cmp >= 0
            ELSE IF operator = <<"<", "=">> THEN cmp <= 0
            ELSE TRUE

\* a read failure counted as a match
containsSearchTextUnreadableMatches(file, searchText) ==
    IF ~IsSet(searchText) \/ searchText[1] = <<>>
    THEN [value |-> TRUE, read |-> FALSE]
    ELSE IF ~file.readOk
    THEN [value |-> TRUE, read |-> TRUE]
    ELSE [value |-> includes(toLowerCase(file.content), toLowerCase(searchText[1])),
          read |-> TRUE]

\* value: the test's result; read: whether readFileSync was called
containsSearchText(file, searchText) ==
    IF ~IsSet(searchText) \/ searchText[1] = <<>>
    THEN [value |-> TRUE, read |-> FALSE]
    ELSE IF ~file.readOk
    THEN [value |-> FALSE, read |-> TRUE]
    ELSE [value |-> includes(toLowerCase(file.content), toLowerCase(searchText[1])),
          read |-> TRUE]

----------------------------------------------------------------------------
(* scanDirectory.  fs[i] is an entry of the tree, fs[1] the root; the       *)
(* entries of a directory are enumerated in the order of their indices.     *)
(* The recursion is a stack of frames, one per active call.                 *)

Root == 1

\* the directory a path names: an entry with a link field is a symbolic link
\* to the directory fs[link], which readdirSync and statSync follow
Target(fsys, dir) ==
    IF "link" \in DOMAIN fsys[dir] THEN fsys[dir].link ELSE dir

\* fs.readdirSync(dirPath), when it succeeds
readdirSync(fsys, dir) ==
    SelectSeq([i \in 1..Len(fsys) |-> i], LAMBDA i : fsys[i].parent = Target(fsys, dir))

\* path.relative(options.baseDir, itemPath), itemPath being built by
\* path.join(dirPath, item) in each active call: the names of the
\* directories the calls below the outermost one were made on, then the
\* item's name
relativePath(fsys, stack, item) ==
    [k \in 1..(Len(stack) - 1) |-> fsys[stack[k + 1].dir].name] \o <<fsys[item].name>>

Frame(dir, depth) ==
    [dir |-> dir, depth |-> depth, listed |-> FALSE, idx |-> 1, results |-> <<>>]

\* the state of scanDirectory(absolutePath, 0, options) when it is called
ScanCall ==
    [stack |-> <<Frame(Root, 0)>>, listings |-> <<>>, warnings |-> <<>>,
     reads |-> <<>>, files |-> <<>>, done |-> FALSE]

Top(s) == s.stack[Len(s.stack)]

\* the results of the callee put in front of the caller's
ReturnResultsPrepended(s, results) ==
    LET n == Len(s.stack)
    IN IF n = 1
       THEN [s EXCEPT !.stack = <<>>, !.files = results, !.done = TRUE]
       ELSE [s EXCEPT !.stack = [k \in 1..(n - 1) |->
                                    IF k = n - 1
                                    THEN [s.stack[k] EXCEPT
                                            !.results = results \o @,
                                            !.idx = @ + 1]
                                    ELSE s.stack[k]]]

\* `return results` of the top call: the caller pushes them onto its own
\* results and goes on with its next item; the outermost call's results are
\* the scan's files
ReturnResults(s, results) ==
    LET n == Len(s.stack)
    IN IF n = 1
       THEN [s EXCEPT !.stack = <<>>, !.files = results, !.done = TRUE]
       ELSE [s EXCEPT !.stack = [k \in 1..(n - 1) |->
                                    IF k = n - 1
                                    THEN [s.stack[k] EXCEPT
                                            !.results = @ \o results,
                                            !.idx = @ + 1]
                                    ELSE s.stack[k]]]

\* the catch block: console.warn, then `return results`
CatchAndReturn(s) ==
    ReturnResults([s EXCEPT !.warnings = Append(@, Top(s).dir)], Top(s).results)

\* the guard one level late
BeyondDepthOffByOne(currentDepth, depth) == ~depth.inf /\ currentDepth > depth.n + 1

\* the guard one level early
BeyondDepthInclusive(currentDepth, depth) == ~depth.inf /\ currentDepth >= depth.n

\* no guard at all
BeyondDepthNever(currentDepth, depth) == FALSE

\* currentDepth > options.depth
BeyondDepth(currentDepth, depth) == ~depth.inf /\ currentDepth > depth.n

\* readdirSync outside the try: its exception reaches the caller's catch
EnterDirectoryRethrow(fsys, opts, s) ==
    LET listing == [s EXCEPT !.listings = Append(@, Top(s).dir)]
        popped == [listing EXCEPT !.stack = SubSeq(@, 1, Len(@) - 1)]
    IN IF BeyondDepth(Top(s).depth, opts.depth) THEN ReturnResults(s, <<>>)
       ELSE IF ~fsys[Top(s).dir].listOk
       THEN IF popped.stack = <<>> THEN [popped EXCEPT !.done = TRUE]
            ELSE CatchAndReturn(popped)
       ELSE [listing EXCEPT !.stack[Len(s.stack)].listed = TRUE]

\* entry of a call: the depth guard, then readdirSync inside the try
\* (listings records the directories readdirSync is called on)
EnterDirectory(fsys, opts, s) ==
    LET listing == [s EXCEPT !.listings = Append(@, Top(s).dir)]
    IN IF BeyondDepth(Top(s).depth, opts.depth) THEN ReturnResults(s, <<>>)
       ELSE IF ~fsys[Top(s).dir].listOk THEN CatchAndReturn(listing)
       ELSE [listing EXCEPT !.stack[Len(s.stack)].listed = TRUE]

\* the extension as the name spells it
fileInfoRawExtension(fsys, stack, i) ==
    [node |-> i,
     name |-> fsys[i].name,
     relativePath |-> relativePath(fsys, stack, i),
     size |-> fsys[i].size,
     extension |-> extname(fsys[i].name)]

fileInfo(fsys, stack, i) ==
    [node |-> i,
     name |-> fsys[i].name,
     relativePath |-> relativePath(fsys, stack, i),
     size |-> fsys[i].size,
     extension |-> toLowerCase(extname(fsys[i].name))]

\* the content read before the other three tests
ScanItemReadsFirst(fsys, opts, s) ==
    LET f == Top(s)
        top == Len(s.stack)
        item == readdirSync(fsys, f.dir)[f.idx]
        stats == fsys[item]
        found == containsSearchText(stats, opts.searchText)
        opened == IF found.read THEN [s EXCEPT !.reads = Append(@, item)] ELSE s
        next == [opened EXCEPT !.stack[top].idx = @ + 1]
    IN IF ~stats.statOk THEN CatchAndReturn(s)
       ELSE IF stats.kind = "dir"
       THEN [s EXCEPT !.stack = Append(@, Frame(item, f.depth + 1))]
       ELSE IF stats.kind = "file"
       THEN IF ~found.value THEN next
            ELSE IF ~matchesExtension(stats.name, opts.extensions) THEN next
            ELSE LET named == matchesNamePattern(stats.name, opts.namePattern)
                 IN IF named.throws THEN CatchAndReturn(opened)
                    ELSE IF ~named.value THEN next
                    ELSE IF ~matchesSizeFilter(stats.size, opts.sizeFilter) THEN next
                    ELSE [next EXCEPT !.stack[top].results =
                                          Append(@, fileInfo(fsys, s.stack, item))]
       ELSE [s EXCEPT !.stack[top].idx = @ + 1]

\* one iteration of `for (const item of items)`
ScanItem(fsys, opts, s) ==
    LET f == Top(s)
        top == Len(s.stack)
        item == readdirSync(fsys, f.dir)[f.idx]
        stats == fsys[item]
        next == [s EXCEPT !.stack[top].idx = @ + 1]
    IN IF ~stats.statOk THEN CatchAndReturn(s)
       ELSE IF stats.kind = "dir"
       THEN [s EXCEPT !.stack = Append(@, Frame(item, f.depth + 1))]
       ELSE IF stats.kind = "file"
       THEN IF ~matchesExtension(stats.name, opts.extensions) THEN next
            ELSE LET named == matchesNamePattern(stats.name, opts.namePattern)
                 IN IF named.throws THEN CatchAndReturn(s)
                    ELSE IF ~named.value THEN next
                    ELSE IF ~matchesSizeFilter(stats.size, opts.sizeFilter) THEN next
                    ELSE LET found == containsSearchText(stats, opts.searchText)
                             opened == IF found.read
                                       THEN [next EXCEPT !.reads = Append(@, item)]
                                       ELSE next
                         IN IF found.value
                            THEN [opened EXCEPT !.stack[top].results =
                                                    Append(@, fileInfo(fsys, s.stack, item))]
                            ELSE opened
       ELSE next

\* the step the top call takes next
ScanStep(fsys, opts, s) ==
    IF ~Top(s).listed THEN EnterDirectory(fsys, opts, s)
    ELSE IF Top(s).idx <= Len(readdirSync(fsys, Top(s).dir)) THEN ScanItem(fsys, opts, s)
    ELSE ReturnResults(s, Top(s).results)

\* scanDirectory run to its return
RECURSIVE RunScan(_, _, _)
RunScan(fsys, opts, s) ==
    IF s.done THEN s ELSE RunScan(fsys, opts, ScanStep(fsys, opts, s))

----------------------------------------------------------------------------
(* The scan as a state machine: one action per step of the top call *)

EnterScanDirectory ==
    /\ pc = "scan"
    /\ ~scan.done
    /\ ~Top(scan).listed
    /\ scan' = EnterDirectory(fs, options, scan)
    /\ pc' = IF scan'.done THEN "scanned" ELSE "scan"
    /\ UNCHANGED <<manager, call, ret, fs, options, console, exitCode>>

VisitItem ==
    /\ pc = "scan"
    /\ ~scan.done
    /\ Top(scan).listed
    /\ Top(scan).idx <= Len(readdirSync(fs, Top(scan).dir))
    /\ scan' = ScanItem(fs, options, scan)
    /\ pc' = IF scan'.done THEN "scanned" ELSE "scan"
    /\ UNCHANGED <<manager, call, ret, fs, options, console, exitCode>>

ReturnFromDirectory ==
    /\ pc = "scan"
    /\ ~scan.done
    /\ Top(scan).listed
    /\ Top(scan).idx > Len(readdirSync(fs, Top(scan).dir))
    /\ scan' = ReturnResults(scan, Top(scan).results)
    /\ pc' = IF scan'.done THEN "scanned" ELSE "scan"
    /\ UNCHANGED <<manager, call, ret, fs, options, console, exitCode>>

Next == EnterScanDirectory \/ VisitItem \/ ReturnFromDirectory

----------------------------------------------------------------------------
(* Directory trees and options the scan is run on *)

MaxEntries == 3
MaxDepthOption == 1
MaxFilterEntries == 3

Entry(kind, name, size, content, statOk, listOk, readOk) ==
    [parent |-> 0, kind |-> kind, name |-> name, size |-> size, content |-> content,
     statOk |-> statOk, listOk |-> listOk, readOk |-> readOk]

Dir(name, listOk) == Entry("dir", name, 0, <<>>, TRUE, listOk, TRUE)
File(name, size, content, readOk) == Entry("file", name, size, content, TRUE, TRUE, readOk)

\* the trees of a root and up to n entries drawn from kinds: an entry's
\* parent is a directory before it, parents never decrease along the
\* sequence (the entries are numbered level by level), and the names within
\* one directory are distinct
RECURSIVE Trees(_, _, _)
Trees(roots, kinds, n) ==
    IF n = 0 THEN {<<r>> : r \in roots}
    ELSE LET smaller == Trees(roots, kinds, n - 1)
         IN smaller \cup
            UNION {
              UNION {
                {Append(t, [e EXCEPT !.parent = p]) :
                    e \in {k \in kinds :
                             \A i \in 1..Len(t) : t[i].parent = p => t[i].name # k.name}} :
                p \in {q \in 1..Len(t) : t[q].kind = "dir" /\ q >= t[Len(t)].parent}} :
              t \in {x \in smaller : Len(x) = n}}

Depths(n) == {[inf |-> TRUE, n |-> 0]} \cup {[inf |-> FALSE, n |-> d] : d \in 0..n}

\* trees with failures: unlistable directories, entries whose stat fails,
\* entries that are neither file nor directory
FailingEntries ==
    {Dir(<<"c">>, TRUE), Dir(<<"c">>, FALSE), Dir(<<"d">>, TRUE),
     File(<<"a", ".", "T">>, 10, <<>>, TRUE),
     File(<<"b">>, 2048, <<>>, TRUE),
     Entry("file", <<"x", ".", "t">>, 0, <<>>, FALSE, TRUE, TRUE),
     Entry("other", <<"o", ".", "t">>, 0, <<>>, TRUE, TRUE, TRUE)}

Init ==
    /\ pc = "scan"
    /\ fs \in Trees({Dir(<<>>, TRUE), Dir(<<>>, FALSE)}, FailingEntries, MaxEntries)
    /\ options \in [depth : Depths(MaxDepthOption),
                    extensions : {{}, {<<".", "t">>}},
                    namePattern : {None},
                    sizeFilter : {None},
                    searchText : {None}]
    /\ scan = ScanCall
    /\ call = Idle /\ ret = Idle
    /\ console = Idle /\ exitCode = Idle
    /\ manager = Idle

Spec == Init /\ [][Next]_vars

\* trees whose directories and entries are all readable (one file's content
\* is not), with files that each fail one of the four filters below
FilterEntries ==
    {Dir(<<"c">>, TRUE),
     File(<<"a", ".", "t">>, 2048, <<"E", "R">>, TRUE),
     File(<<"a", "b">>, 2048, <<"x", "e", "r">>, TRUE),
     File(<<"B", ".", "T">>, 2048, <<"e", "R">>, TRUE),
     File(<<"a", "a", ".", "t">>, 5, <<"E", "R">>, TRUE),
     File(<<"a", ".", "T">>, 2048, <<"r">>, TRUE),
     File(<<"b", "a", ".", "t">>, 2048, <<>>, FALSE),
     File(<<".", "t">>, 5, <<"r">>, TRUE)}

NoFilters ==
    [depth |-> [inf |-> TRUE, n |-> 0], extensions |-> {}, namePattern |-> None,
     sizeFilter |-> None, searchText |-> None]

\* every combination of the four filters switched on or off, and two
\* arguments parseArguments accepts as well: a pattern that does not compile
\* and the operator "=="
FilterOptions ==
    [depth : Depths(0),
     extensions : {{}, {<<".", "t">>}},
     namePattern : {None, Some(<<"a">>)},
     sizeFilter : {None, Some(parseSizeFilter(<<">", "1", "K", "B">>).value)},
     searchText : {None, Some(<<"e", "R">>)}]
    \cup {[NoFilters EXCEPT !.namePattern = Some(<<"(">>), !.extensions = e] :
            e \in {{}, {<<".", "t">>}}}
    \cup {[NoFilters EXCEPT !.sizeFilter = Some(parseSizeFilter(<<"=", "=", "5">>).value)]}

InitFilter ==
    /\ pc = "scan"
    /\ fs \in Trees({Dir(<<>>, TRUE)}, FilterEntries, MaxFilterEntries)
    /\ options \in FilterOptions
    /\ scan = ScanCall
    /\ call = Idle /\ ret = Idle
    /\ console = Idle /\ exitCode = Idle
    /\ manager = Idle

SpecFilter == InitFilter /\ [][Next]_vars

----------------------------------------------------------------------------
(* Calls of the two pure functions on inputs drawn from bounded sets *)

MaxPatLen == 3
MaxNameLen == 3
MaxNumLen == 4

PatternChars == {"a", "b", ".", "*", "?", "("}
NameChars == {"a", "A", "b", "."}

\* a size filter string is an operator part, a number part and a unit part,
\* each well formed or not
OperatorParts ==
    {<<>>, <<">">>, <<"<">>, <<"=">>, <<">", "=">>, <<"<", "=">>,
     <<"=", "=">>, <<"=", ">">>}
NumberChars == {"0", "1", "5", "."}
UnitParts ==
    {<<>>, <<"B">>, <<"K", "B">>, <<"M", "B">>, <<"G", "B">>,
     <<"b">>, <<"k", "b">>, <<"g", "b">>, <<"K", "b">>,
     <<"T", "B">>, <<"K">>, <<"a">>}

\* parseArguments never stores an empty pattern (line 116)
NamePatterns == SeqsUpTo(PatternChars, MaxPatLen) \ {<<>>}

\* the calls of the documented examples (day-04 README, lines 122-132)
ExampleNames ==
    {<<"a", "p", "p", ".", "t", "e", "s", "t", ".", "j", "s">>,
     <<"a", "p", "p", ".", "j", "s">>,
     <<"c", "o", "n", "f", "i", "g", ".", "j", "s", "o", "n">>,
     <<"A", "p", "p", ".", "T", "e", "s", "t", ".", "J", "S">>}
ExamplePatterns ==
    {<<"*", ".", "t", "e", "s", "t", ".", "*">>,
     <<"c", "o", "n", "f", "i", "g", ".", "*">>,
     <<"a", "p", "p", "*">>,
     <<"?", "p", "p", ".", "j", "?">>}

InitName ==
    /\ pc = "call"
    /\ \/ call \in [fn : {"matchesNamePattern"},
                    fileName : SeqsUpTo(NameChars, MaxNameLen),
                    pattern : {None} \cup {Some(p) : p \in NamePatterns}]
       \/ call \in [fn : {"matchesNamePattern"},
                    fileName : ExampleNames,
                    pattern : {None} \cup {Some(p) : p \in ExamplePatterns}]
    /\ ret = Idle
    /\ fs = Idle /\ options = Idle /\ scan = Idle
    /\ console = Idle /\ exitCode = Idle
    /\ manager = Idle

CallMatchesNamePattern ==
    /\ pc = "call"
    /\ call.fn = "matchesNamePattern"
    /\ ret' = matchesNamePattern(call.fileName, call.pattern)
    /\ pc' = "returned"
    /\ UNCHANGED <<manager, call, fs, options, scan, console, exitCode>>

NextName == CallMatchesNamePattern

SpecName == InitName /\ [][NextName]_vars

SizeFilterStrings ==
    {op \o num \o unit : op \in OperatorParts,
                          num \in SeqsUpTo(NumberChars, MaxNumLen),
                          unit \in UnitParts}

InitSize ==
    /\ pc = "call"
    /\ call \in [fn : {"parseSizeFilter"}, filterStr : SizeFilterStrings]
    /\ ret = Idle
    /\ fs = Idle /\ options = Idle /\ scan = Idle
    /\ console = Idle /\ exitCode = Idle
    /\ manager = Idle

CallParseSizeFilter ==
    /\ pc = "call"
    /\ call.fn = "parseSizeFilter"
    /\ ret' = parseSizeFilter(call.filterStr)
    /\ pc' = "returned"
    /\ UNCHANGED <<manager, call, fs, options, scan, console, exitCode>>

NextSize == CallParseSizeFilter

SpecSize == InitSize /\ [][NextSize]_vars

----------------------------------------------------------------------------
(* formatBytes.  Its argument is a number (hi * 2^20 + lo) / den: a byte    *)
(* count has den = 1, an average of byte counts has the number of files as  *)
(* den.  The divisions by 1024 are exact in the script's doubles, so the    *)
(* scaled value is that number / 1024^unitIndex.                            *)

\* the whole number b as a number
Whole(b) == [hi |-> b.hi, lo |-> b.lo, den |-> 1]

\* floor(b / n) for a small positive n
BigDivSmall(b, n) ==
    [hi |-> b.hi \div n, lo |-> ((b.hi % n) * Limb + b.lo) \div n]

BigAdd(a, b) ==
    LET low == a.lo + b.lo
    IN [hi |-> a.hi + b.hi + (low \div Limb), lo |-> low % Limb]

\* floor(b / 1024)
BigDiv1024(b) ==
    [hi |-> b.hi \div 1024, lo |-> (b.hi % 1024) * 1024 + (b.lo \div 1024)]

\* 1024^k
RECURSIVE Pow1024(_)
Pow1024(k) == IF k = 0 THEN ToBig(1) ELSE BigScale(Pow1024(k - 1), 1024)

\* const units = ['B', 'KB', 'MB', 'GB']
units == <<<<"B">>, <<"K", "B">>, <<"M", "B">>, <<"G", "B">>>>

\* the loop goes on at a scaled value of 1024 only when it exceeds it
NeedsLargerUnitStrict(bytes, unitIndex) ==
    /\ BigCompare(bytes, BigScale(Pow1024(unitIndex + 1), bytes.den)) > 0
    /\ unitIndex < Len(units) - 1

\* size >= 1024 && unitIndex < units.length - 1, size being bytes / 1024^unitIndex
NeedsLargerUnit(bytes, unitIndex) ==
    /\ BigCompare(bytes, BigScale(Pow1024(unitIndex + 1), bytes.den)) >= 0
    /\ unitIndex < Len(units) - 1

\* the while loop: the unit index it ends with
RECURSIVE ScaleLoop(_, _)
ScaleLoop(bytes, unitIndex) ==
    IF NeedsLargerUnit(bytes, unitIndex) THEN ScaleLoop(bytes, unitIndex + 1)
    ELSE unitIndex

\* String(n) of a natural number
RECURSIVE NatToString(_)
NatToString(n) ==
    IF n < 10 THEN <<Digits[n + 1]>>
    ELSE NatToString(n \div 10) \o <<Digits[(n % 10) + 1]>>

\* floor(b / 1024^k)
RECURSIVE BigDivPow1024(_, _)
BigDivPow1024(b, k) == IF k = 0 THEN b ELSE BigDivPow1024(BigDiv1024(b), k - 1)

\* (bytes / 1024^k).toFixed(2): the hundredths nearest to the value, the
\* larger one when two are equally near, written with two decimals
toFixed2(bytes, k) ==
    LET twice == BigAdd(BigScale(bytes, 200), BigScale(Pow1024(k), bytes.den))
        q == BigDivPow1024(BigDivSmall(twice, 2 * bytes.den), k)
        cents == q.hi * Limb + q.lo
    IN NatToString(cents \div 100)
       \o <<".", Digits[((cents \div 10) % 10) + 1], Digits[(cents % 10) + 1]>>

formatBytes(bytes) ==
    LET unitIndex == ScaleLoop(bytes, 0)
    IN toFixed2(bytes, unitIndex) \o <<" ">> \o units[unitIndex + 1]

----------------------------------------------------------------------------
(* displayStats: the figures it computes from the matched records *)

\* files.reduce((sum, file) => sum + file.size, 0)
RECURSIVE totalSize(_)
totalSize(files) ==
    IF files = <<>> THEN ToBig(0)
    ELSE BigAdd(totalSize(SubSeq(files, 1, Len(files) - 1)),
                ToBig(files[Len(files)].size))

NoExtension == <<"(no extension)">>

\* acc[ext] = (acc[ext] || 0) + 1 for each file in turn: the entries of the
\* object in insertion order
RECURSIVE extensionCounts(_)
extensionCounts(files) ==
    IF files = <<>> THEN <<>>
    ELSE LET acc == extensionCounts(SubSeq(files, 1, Len(files) - 1))
             file == files[Len(files)]
             ext == IF file.extension = <<>> THEN NoExtension ELSE file.extension
             known == {k \in 1..Len(acc) : acc[k].ext = ext}
         IN IF known = {} THEN Append(acc, [ext |-> ext, count |-> 1])
            ELSE [acc EXCEPT ![CHOOSE k \in known : TRUE].count = @ + 1]

\* the medium bucket starting above 1024
sizeDistributionGap(files) ==
    [small |-> Cardinality({k \in 1..Len(files) : files[k].size < 1024}),
     medium |-> Cardinality({k \in 1..Len(files) : files[k].size > 1024 /\ files[k].size < 1024 * 1024}),
     large |-> Cardinality({k \in 1..Len(files) : files[k].size >= 1024 * 1024
                                          /\ files[k].size < 1024 * 1024 * 1024}),
     huge |-> Cardinality({k \in 1..Len(files) : files[k].size >= 1024 * 1024 * 1024})]

sizeDistribution(files) ==
    [small |-> Cardinality({k \in 1..Len(files) : files[k].size < 1024}),
     medium |-> Cardinality({k \in 1..Len(files) : files[k].size >= 1024 /\ files[k].size < 1024 * 1024}),
     large |-> Cardinality({k \in 1..Len(files) : files[k].size >= 1024 * 1024
                                          /\ files[k].size < 1024 * 1024 * 1024}),
     huge |-> Cardinality({k \in 1..Len(files) : files[k].size >= 1024 * 1024 * 1024})]

displayStats(files) ==
    [totalFiles |-> Len(files),
     totalSize |-> totalSize(files),
     extensionCounts |-> extensionCounts(files),
     sizeDistribution |-> sizeDistribution(files)]

----------------------------------------------------------------------------
(* parseArguments.  An argument is a string; the result is the options      *)
(* object, or the Error the function throws.                                *)

startsWith(s, prefix) ==
    Len(s) >= Len(prefix) /\ SubSeq(s, 1, Len(prefix)) = prefix

OptDepth == <<"-", "-", "d", "e", "p", "t", "h">>
OptExt == <<"-", "-", "e", "x", "t">>
OptName == <<"-", "-", "n", "a", "m", "e">>
OptSize == <<"-", "-", "s", "i", "z", "e">>
OptSearch == <<"-", "-", "s", "e", "a", "r", "c", "h">>
OptTree == <<"-", "-", "t", "r", "e", "e">>
OptStats == <<"-", "-", "s", "t", "a", "t", "s">>
OptJson == <<"-", "-", "j", "s", "o", "n">>
OptCsv == <<"-", "-", "c", "s", "v">>
OptHelp == <<"-", "-", "h", "e", "l", "p">>

\* the options object parseArguments starts from
defaultOptions ==
    [dirPath |-> None, depth |-> [inf |-> TRUE, n |-> 0], extensions |-> {},
     namePattern |-> None, sizeFilter |-> None, searchText |-> None,
     showTree |-> FALSE, showStats |-> FALSE, outputJson |-> FALSE, outputCsv |-> FALSE]

\* Number(str) for a string of digits with an optional minus sign (the empty
\* string is 0); any other string of the argument alphabet is NaN
Number(str) ==
    LET negative == str # <<>> /\ str[1] = "-"
        digits == IF negative THEN Tail(str) ELSE str
    IN IF str = <<>> THEN [nan |-> FALSE, value |-> 0]
       ELSE IF digits # <<>> /\ \A k \in 1..Len(digits) : IsDigit(digits[k])
       THEN [nan |-> FALSE,
             value |-> IF negative THEN 0 - DigitsValue(digits) ELSE DigitsValue(digits)]
       ELSE [nan |-> TRUE, value |-> 0]

\* str.split(','): the pieces between the commas
RECURSIVE split(_, _)
split(str, piece) ==
    IF str = <<>> THEN <<piece>>
    ELSE IF Head(str) = "," THEN <<piece>> \o split(Tail(str), <<>>)
    ELSE split(Tail(str), Append(piece, Head(str)))

\* String.prototype.trim
RECURSIVE trim(_)
trim(str) ==
    IF str # <<>> /\ Head(str) = " " THEN trim(Tail(str))
    ELSE IF str # <<>> /\ str[Len(str)] = " " THEN trim(SubSeq(str, 1, Len(str) - 1))
    ELSE str

\* !args[i + 1] || args[i + 1].startsWith('--')
LacksValue(args, i) ==
    \/ i + 1 > Len(args)
    \/ args[i + 1] = <<>>
    \/ startsWith(args[i + 1], <<"-", "-">>)

ParseError(message) == [throws |-> TRUE, message |-> message, options |-> defaultOptions]

\* the for loop from index i (counted from 1) on, and the check after it
RECURSIVE ParseLoop(_, _, _)
ParseLoop(args, i, opts) ==
    IF i > Len(args)
    THEN IF ~IsSet(opts.dirPath) \/ opts.dirPath[1] = <<>>
         THEN ParseError(<<"Missing directory path. Use --help for usage information.">>)
         ELSE [throws |-> FALSE, message |-> <<>>, options |-> opts]
    ELSE LET arg == args[i]
             value == args[i + 1]
         IN IF startsWith(arg, <<"-", "-">>)
            THEN IF arg = OptDepth
                 THEN IF LacksValue(args, i)
                      THEN ParseError(<<"The --depth option requires a number.">>)
                      ELSE IF Number(value).nan \/ Number(value).value < 0
                      THEN ParseError(<<"Depth must be a non-negative number.">>)
                      ELSE ParseLoop(args, i + 2,
                              [opts EXCEPT !.depth = [inf |-> FALSE, n |-> Number(value).value]])
                 ELSE IF arg = OptExt
                 THEN IF LacksValue(args, i)
                      THEN ParseError(<<"The --ext option requires extensions.">>)
                      ELSE ParseLoop(args, i + 2,
                              [opts EXCEPT !.extensions =
                                 LET pieces == split(value, <<>>)
                                 IN {toLowerCase(trim(pieces[k])) : k \in 1..Len(pieces)}])
                 ELSE IF arg = OptName
                 THEN IF LacksValue(args, i)
                      THEN ParseError(<<"The --name option requires a pattern.">>)
                      ELSE ParseLoop(args, i + 2, [opts EXCEPT !.namePattern = Some(value)])
                 ELSE IF arg = OptSize
                 THEN IF LacksValue(args, i)
                      THEN ParseError(<<"The --size option requires a size filter.">>)
                      ELSE IF parseSizeFilter(value).throws
                      THEN ParseError(<<"Invalid size filter format. Use: >,<,=,>=,<= followed by number and optional unit (KB,MB,GB).">>)
                      ELSE ParseLoop(args, i + 2,
                              [opts EXCEPT !.sizeFilter = Some(parseSizeFilter(value).value)])
                 ELSE IF arg = OptSearch
                 THEN IF LacksValue(args, i)
                      THEN ParseError(<<"The --search option requires search text.">>)
                      ELSE ParseLoop(args, i + 2, [opts EXCEPT !.searchText = Some(value)])
                 ELSE IF arg = OptTree
                 THEN ParseLoop(args, i + 1, [opts EXCEPT !.showTree = TRUE])
                 ELSE IF arg = OptStats
                 THEN ParseLoop(args, i + 1, [opts EXCEPT !.showStats = TRUE])
                 ELSE IF arg = OptJson
                 THEN ParseLoop(args, i + 1, [opts EXCEPT !.outputJson = TRUE])
                 ELSE IF arg = OptCsv
                 THEN ParseLoop(args, i + 1, [opts EXCEPT !.outputCsv = TRUE])
                 ELSE IF arg = OptHelp
                 THEN ParseLoop(args, i + 1, opts)
                 ELSE ParseError(<<"Unknown option: ">> \o arg)
            ELSE IF ~IsSet(opts.dirPath) \/ opts.dirPath[1] = <<>>
            THEN ParseLoop(args, i + 1, [opts EXCEPT !.dirPath = Some(arg)])
            ELSE ParseError(<<"Unexpected argument: ">> \o arg)

\* args is process.argv.slice(2)
parseArguments(args) == ParseLoop(args, 1, defaultOptions)

\* help taken as requested whenever no argument names a path
isHelpRequestedWithoutPath(args) ==
    \/ \A k \in 1..Len(args) : startsWith(args[k], <<"-", "-">>)
    \/ \E k \in 1..Len(args) : args[k] = OptHelp

\* --help looked for in the first argument only
isHelpRequestedFirstOnly(args) ==
    IF Len(args) = 0 THEN TRUE ELSE args[1] = OptHelp

\* process.argv.length <= 2 || process.argv.includes('--help')
isHelpRequested(args) ==
    Len(args) = 0 \/ \E k \in 1..Len(args) : args[k] = OptHelp

----------------------------------------------------------------------------
(* displayTree.  A printed line is a record: the console method it was      *)
(* printed with and its text, a sequence of strings.  The box-drawing       *)
(* connectors are written Tee, Corner, Bar and Blank.                       *)

Line(stream, text) == [stream |-> stream, text |-> text]

Tee == "|-- "
Corner == "+-- "
Bar == "|   "
Blank == "    "

\* the characters of names in collation order: punctuation, digits, letters
CollationOrder ==
    <<".", "0", "1", "2", "3", "4", "5", "6", "7", "8", "9", "a", "b", "c",
      "d", "e", "f", "g", "h", "i", "j", "k", "l", "m", "n", "o", "p", "q",
      "r", "s", "t", "u", "v", "w", "x", "y", "z">>

CollationRank(c) ==
    LET at == {k \in 1..Len(CollationOrder) : CollationOrder[k] = LowerChar(c)}
    IN IF at = {} THEN Len(CollationOrder) + 1 ELSE CHOOSE k \in at : TRUE

\* a.localeCompare(b): the letters decide first, whatever their case; between
\* names that differ in case only, the first difference decides, the
\* lowercase letter coming first
localeCompare(a, b) ==
    LET common == IF Len(a) < Len(b) THEN Len(a) ELSE Len(b)
        differs == {k \in 1..common : CollationRank(a[k]) # CollationRank(b[k])}
        cased == {k \in 1..common : a[k] # b[k]}
        first(S) == CHOOSE k \in S : \A m \in S : k <= m
    IN IF differs # {}
       THEN IF CollationRank(a[first(differs)]) < CollationRank(b[first(differs)])
            THEN -1 ELSE 1
       ELSE IF Len(a) # Len(b) THEN (IF Len(a) < Len(b) THEN -1 ELSE 1)
       ELSE IF cased = {} THEN 0
       ELSE IF LowerChar(a[first(cased)]) = a[first(cased)] THEN -1 ELSE 1

\* the names alone compared
TreeCompareByName(fsys, a, b) == localeCompare(fsys[a].name, fsys[b].name)

\* the comparator of items.sort: directories first, then by name
TreeCompare(fsys, a, b) ==
    IF fsys[a].kind = "dir" /\ fsys[b].kind # "dir" THEN -1
    ELSE IF fsys[a].kind # "dir" /\ fsys[b].kind = "dir" THEN 1
    ELSE localeCompare(fsys[a].name, fsys[b].name)

\* items.sort(comparator)
sortedItems(fsys, items) ==
    SortSeq(items, LAMBDA a, b : TreeCompare(fsys, a, b) < 0)

\* console.warn of the catch block; the message names the call that failed
TreeError(prefix, message) ==
    Line("warn", prefix \o <<Corner, "[Error reading directory: ", message, "]">>)

\* what a call does, in order: the lines it prints and the directories it
\* calls readdirSync on (as records [listing |-> directory])
Listing(dirPath) == [listing |-> dirPath]

RECURSIVE TreeWalk(_, _, _, _, _)
RECURSIVE TreeItems(_, _, _, _, _, _)

\* the for loop over sortedItems from index i on (every item has been stat'ed)
TreeItems(fsys, sorted, i, currentDepth, maxDepth, prefix) ==
    IF i > Len(sorted) THEN <<>>
    ELSE LET item == sorted[i]
             isLast == i = Len(sorted)
             currentPrefix == IF isLast THEN Corner ELSE Tee
             nextPrefix == Append(prefix, IF isLast THEN Blank ELSE Bar)
         IN IF fsys[item].kind = "dir"
            THEN <<Line("log", prefix \o <<currentPrefix>> \o fsys[item].name \o <<"/">>)>>
                 \o TreeWalk(fsys, item, currentDepth + 1, maxDepth, nextPrefix)
                 \o TreeItems(fsys, sorted, i + 1, currentDepth, maxDepth, prefix)
            ELSE <<Line("log", prefix \o <<currentPrefix>> \o fsys[item].name
                                      \o <<" (">>
                                      \o formatBytes(Whole(ToBig(fsys[item].size)))
                                      \o <<")">>)>>
                 \o TreeItems(fsys, sorted, i + 1, currentDepth, maxDepth, prefix)

\* a directory that cannot be listed passed over in silence
TreeWalkSilent(fsys, dirPath, currentDepth, maxDepth, prefix) ==
    IF BeyondDepth(currentDepth, maxDepth) THEN <<>>
    ELSE IF ~fsys[dirPath].listOk
    THEN <<Listing(dirPath)>>
    ELSE IF \E k \in 1..Len(readdirSync(fsys, dirPath)) :
                ~fsys[readdirSync(fsys, dirPath)[k]].statOk
    THEN <<Listing(dirPath), TreeError(prefix, "stat")>>
    ELSE <<Listing(dirPath)>>
         \o (CHOOSE printed \in {TreeItems(fsys, sorted, 1, currentDepth, maxDepth, prefix) :
                                    sorted \in {sortedItems(fsys, readdirSync(fsys, dirPath))}} :
                 TRUE)

\* one call of displayTree.  statSync is called on the items while they are
\* sorted and again in the loop, so one item whose stat fails ends the call in
\* the catch block before any line of the directory is printed.
TreeWalk(fsys, dirPath, currentDepth, maxDepth, prefix) ==
    IF BeyondDepth(currentDepth, maxDepth) THEN <<>>
    ELSE IF ~fsys[dirPath].listOk
    THEN <<Listing(dirPath), TreeError(prefix, "scandir")>>
    ELSE IF \E k \in 1..Len(readdirSync(fsys, dirPath)) :
                ~fsys[readdirSync(fsys, dirPath)[k]].statOk
    THEN <<Listing(dirPath), TreeError(prefix, "stat")>>
    ELSE <<Listing(dirPath)>>
         \o (CHOOSE printed \in {TreeItems(fsys, sorted, 1, currentDepth, maxDepth, prefix) :
                                    sorted \in {sortedItems(fsys, readdirSync(fsys, dirPath))}} :
                 TRUE)

IsListing(event) == "listing" \in DOMAIN event
IsLine(event) == ~IsListing(event)

\* lines: what the call prints; listings: the directories it calls
\* readdirSync on, as Listing records
displayTree(fsys, dirPath, currentDepth, maxDepth, prefix) ==
    [lines |-> SelectSeq(TreeWalk(fsys, dirPath, currentDepth, maxDepth, prefix), IsLine),
     listings |-> SelectSeq(TreeWalk(fsys, dirPath, currentDepth, maxDepth, prefix),
                            IsListing)]

----------------------------------------------------------------------------
(* The record-based reports: what displayStats, outputJson, outputCsv and   *)
(* the default file list print.  Times (scannedAt, modified, created) are   *)
(* not modelled; they print as the strings Now, Modified and Created.       *)

Now == "<now>"
Modified == "<mtime>"
Created == "<birthtime>"

\* String(b) of a whole number kept in two limbs
RECURSIVE BigToString(_)
BigToString(b) ==
    IF b.hi = 0 /\ b.lo < 10 THEN <<Digits[b.lo + 1]>>
    ELSE BigToString(BigDivSmall(b, 10))
         \o <<Digits[(((b.hi % 10) * Limb + b.lo) % 10) + 1]>>

\* path.resolve(process.cwd(), dirPath) for a relative dirPath
absolutePath(dirPath) == <<"/cwd/">> \o dirPath

\* a relative path as one string: its segments joined by the separator
RECURSIVE pathString(_)
pathString(segments) ==
    IF segments = <<>> THEN <<>>
    ELSE IF Len(segments) = 1 THEN segments[1]
    ELSE segments[1] \o <<"/">> \o pathString(Tail(segments))

\* entries.sort(([,a], [,b]) => b - a): by count, the larger first; entries
\* of equal count keep their order
sortedByCount(entries) ==
    LET ahead(k) == {m \in 1..Len(entries) :
                        \/ entries[m].count > entries[k].count
                        \/ entries[m].count = entries[k].count /\ m < k}
    IN [p \in 1..Len(entries) |->
          entries[CHOOSE k \in 1..Len(entries) : Cardinality(ahead(k)) = p - 1]]

\* the lines displayStats prints (the average of up to four byte counts is
\* the exact quotient: its double rounds to the same hundredth)
StatsLines(files, dirPath) ==
    LET stats == displayStats(files)
        entries == sortedByCount(stats.extensionCounts)
        d == stats.sizeDistribution
        average == [hi |-> stats.totalSize.hi, lo |-> stats.totalSize.lo,
                    den |-> stats.totalFiles]
    IN <<Line("log", <<"Directory Statistics">>),
         Line("log", <<"================================">>),
         Line("log", <<"Directory: ">> \o dirPath),
         Line("log", <<"Total Files: ">> \o NatToString(stats.totalFiles)),
         Line("log", <<"Total Size: ">> \o formatBytes(Whole(stats.totalSize))),
         Line("log", <<"Average File Size: ">>
                     \o (IF stats.totalFiles > 0 THEN formatBytes(average) ELSE <<"0 B">>)),
         Line("log", <<"\nFile Extensions:">>),
         Line("log", <<"--------------------------------">>)>>
       \o [k \in 1..Len(entries) |->
             Line("log", entries[k].ext \o <<": ">> \o NatToString(entries[k].count)
                         \o <<" files">>)]
       \o <<Line("log", <<"\nSize Distribution:">>),
            Line("log", <<"--------------------------------">>),
            Line("log", <<"< 1KB: ">> \o NatToString(d.small) \o <<" files">>),
            Line("log", <<"1KB - 1MB: ">> \o NatToString(d.medium) \o <<" files">>),
            Line("log", <<"1MB - 1GB: ">> \o NatToString(d.large) \o <<" files">>),
            Line("log", <<">= 1GB: ">> \o NatToString(d.huge) \o <<" files">>)>>

sizeHuman(file) == formatBytes(Whole(ToBig(file.size)))

\* the object literal of one file in JSON.stringify's output
JsonFile(file, dirPath) ==
    <<"{name: ">> \o file.name
    \o <<", path: ">> \o dirPath \o <<"/">> \o pathString(file.relativePath)
    \o <<", relativePath: ">> \o pathString(file.relativePath)
    \o <<", size: ">> \o NatToString(file.size)
    \o <<", sizeHuman: ">> \o sizeHuman(file)
    \o <<", extension: ">> \o file.extension
    \o <<", modified: ", Modified, ", created: ", Created, "}">>

RECURSIVE JsonFiles(_, _)
JsonFiles(files, dirPath) ==
    IF files = <<>> THEN <<>>
    ELSE JsonFile(Head(files), dirPath) \o JsonFiles(Tail(files), dirPath)

\* outputJson: one console.log of the whole document
JsonLines(files, dirPath) ==
    <<Line("log", <<"{directory: ">> \o dirPath
                  \o <<", scannedAt: ", Now, ", totalFiles: ">> \o NatToString(Len(files))
                  \o <<", totalSize: ">> \o BigToString(totalSize(files))
                  \o <<", files: [">> \o JsonFiles(files, dirPath) \o <<"]}">>)>>

\* outputCsv: the header row, then a row per file
CsvLines(files) ==
    <<Line("log", <<"name,relativePath,size,extension,modified,created">>)>>
    \o [k \in 1..Len(files) |->
          Line("log", <<"\"">> \o files[k].name
                      \o <<"\",\"">> \o pathString(files[k].relativePath)
                      \o <<"\",">> \o NatToString(files[k].size)
                      \o <<",\"">> \o files[k].extension
                      \o <<"\",\"", Modified, "\",\"", Created, "\"">>)]

\* String(n).padStart(3, '0')
padStart3(str) ==
    IF Len(str) >= 3 THEN str ELSE [k \in 1..(3 - Len(str)) |-> "0"] \o str

\* the list numbered from 000
ListLinesFromZero(files) ==
    IF Len(files) = 0 THEN <<Line("log", <<"No files found matching the criteria.">>)>>
    ELSE [k \in 1..Len(files) |->
            Line("log", padStart3(NatToString(k - 1)) \o <<": ">>
                        \o pathString(files[k].relativePath)
                        \o <<" (">> \o sizeHuman(files[k]) \o <<")">>)]

\* the default file list
ListLines(files) ==
    IF Len(files) = 0 THEN <<Line("log", <<"No files found matching the criteria.">>)>>
    ELSE [k \in 1..Len(files) |->
            Line("log", padStart3(NatToString(k)) \o <<": ">>
                        \o pathString(files[k].relativePath)
                        \o <<" (">> \o sizeHuman(files[k]) \o <<")">>)]

----------------------------------------------------------------------------
(* main.  call.argv is process.argv.slice(2); the directory named "p" is    *)
(* the root of the tree fs, "f" names a regular file, and no other path     *)
(* exists.  The warnings of the scan are kept in scan.warnings.             *)

HELP_TEXT == <<"Usage: node index.js <directory-path> [options] ...">>

Banner == Line("log", <<"Directory Scanner CLI - Day 4">>)
Rule(c) == Line("log", <<c, c, c, c, c, c, c, c, c, c, c, c, c, c, c, c,
                         c, c, c, c, c, c, c, c, c, c, c, c, c, c, c, c>>)

\* what fs.existsSync and fs.statSync find at the root path
rootStat(dirPath) ==
    IF dirPath = <<"p">> THEN "dir"
    ELSE IF dirPath = <<"f">> THEN "file"
    ELSE "missing"

\* the tree of the matches only
TreeReportOfMatches(fsys, opts, files) ==
    LET matched == {files[k].node : k \in 1..Len(files)}
        pruned == [i \in 1..Len(fsys) |->
                     IF fsys[i].kind = "file" /\ i \notin matched
                     THEN [fsys[i] EXCEPT !.parent = 0]
                     ELSE fsys[i]]
    IN IF opts.showTree
       THEN <<Line("log", <<"\nDirectory Tree">>), Rule("-")>>
            \o displayTree(pruned, Root, 0, opts.depth, <<>>).lines
       ELSE <<>>

\* if (options.showTree) { ... displayTree(absolutePath, 0, options.depth) }
TreeReport(fsys, opts, files) ==
    IF opts.showTree
    THEN <<Line("log", <<"\nDirectory Tree">>), Rule("-")>>
         \o displayTree(fsys, Root, 0, opts.depth, <<>>).lines
    ELSE <<>>

\* if (options.showStats) { ... displayStats(files, absolutePath) }
StatsReport(opts, files) ==
    IF opts.showStats
    THEN <<Line("log", <<"\nStatistics">>), Rule("-")>>
         \o StatsLines(files, opts.baseDir)
    ELSE <<>>

\* the if / else if chain: JSON, else CSV, else the file list unless a tree
\* or statistics were asked for
OutputReport(opts, files) ==
    IF opts.outputJson
    THEN <<Line("log", <<"\nJSON Output">>), Rule("-")>> \o JsonLines(files, opts.baseDir)
    ELSE IF opts.outputCsv
    THEN <<Line("log", <<"\nCSV Output">>), Rule("-")>> \o CsvLines(files)
    ELSE IF ~opts.showTree /\ ~opts.showStats
    THEN <<Line("log", <<"\nFound Files">>), Rule("-")>> \o ListLines(files)
    ELSE <<>>

\* if (isHelpRequested()) { ...; process.exit(0) }
MainShowHelp ==
    /\ pc = "main"
    /\ isHelpRequested(call.argv)
    /\ console' = <<Banner, Line("log", HELP_TEXT)>>
    /\ exitCode' = Some(0)
    /\ pc' = "exited"
    /\ UNCHANGED <<manager, call, ret, fs, options, scan>>

\* options = parseArguments(), or its catch block
MainParseArguments ==
    /\ pc = "main"
    /\ ~isHelpRequested(call.argv)
    /\ LET parsed == parseArguments(call.argv)
       IN IF parsed.throws
          THEN /\ console' = <<Line("error", <<"Error: ">> \o parsed.message),
                               Line("log", HELP_TEXT)>>
               /\ exitCode' = Some(1)
               /\ pc' = "exited"
               /\ UNCHANGED options
          ELSE /\ options' = parsed.options
               /\ pc' = "parsed"
               /\ UNCHANGED <<console, exitCode>>
    /\ UNCHANGED <<manager, call, ret, fs, scan>>

\* the two checks of the root path, the banner, and the call of scanDirectory
MainCheckRoot ==
    /\ pc = "parsed"
    /\ LET path == absolutePath(options.dirPath[1])
           found == rootStat(options.dirPath[1])
       IN IF found = "missing"
          THEN /\ console' = <<Line("error", <<"Error: Directory not found -> ">> \o path)>>
               /\ exitCode' = Some(1)
               /\ pc' = "exited"
               /\ UNCHANGED <<options, scan>>
          ELSE IF found # "dir"
          THEN /\ console' = <<Line("error",
                                    <<"Error: The provided path is not a directory">>)>>
               /\ exitCode' = Some(1)
               /\ pc' = "exited"
               /\ UNCHANGED <<options, scan>>
          ELSE /\ options' = [baseDir |-> path] @@ options
               /\ console' = <<Banner, Rule("="), Line("log", <<"Scanning: ">> \o path)>>
                             \o (IF options.depth.inf THEN <<>>
                                 ELSE <<Line("log", <<"Max Depth: ">>
                                                    \o NatToString(options.depth.n))>>)
               /\ scan' = ScanCall
               /\ pc' = "scan"
               /\ UNCHANGED exitCode
    /\ UNCHANGED <<manager, call, ret, fs>>

\* after the scan: the reports, the closing line, process.exit(0)
MainReport ==
    /\ pc = "scanned"
    /\ exitCode = None
    /\ console' = console
                  \o TreeReport(fs, options, scan.files)
                  \o StatsReport(options, scan.files)
                  \o OutputReport(options, scan.files)
                  \o <<Line("log", <<"\nFound ">> \o NatToString(Len(scan.files))
                                   \o <<" files">>)>>
    /\ exitCode' = Some(0)
    /\ pc' = "exited"
    /\ UNCHANGED <<manager, call, ret, fs, options, scan>>

NextMain ==
    \/ MainShowHelp
    \/ MainParseArguments
    \/ MainCheckRoot
    \/ Next
    \/ MainReport

----------------------------------------------------------------------------
(* Runs of main: command lines and the trees below the root "p" *)

MaxArgs == 3

At(entry, parent) == [entry EXCEPT !.parent = parent]

\* a.txt (10 bytes), b.log (2048 bytes, containing ERROR) and c/ with d.txt
\* (5 bytes), enumerated in this order
ScenarioTree ==
    <<Dir(<<>>, TRUE),
      At(File(<<"a", ".", "t", "x", "t">>, 10, <<"x">>, TRUE), 1),
      At(File(<<"b", ".", "l", "o", "g">>, 2048, <<"a", "E", "R", "R", "O", "R">>, TRUE), 1),
      At(Dir(<<"c">>, TRUE), 1),
      At(File(<<"d", ".", "t", "x", "t">>, 5, <<>>, TRUE), 4)>>

\* a directory that cannot be listed and a directory with an entry whose
\* stat fails
BrokenTree ==
    <<Dir(<<>>, TRUE),
      At(File(<<"a", ".", "t", "x", "t">>, 10, <<"e", "r", "r", "o", "r">>, TRUE), 1),
      At(Dir(<<"c">>, FALSE), 1),
      At(Dir(<<"d">>, TRUE), 1),
      At(File(<<"B", ".", "T", "X", "T">>, 2048, <<>>, FALSE), 1),
      At(Entry("file", <<"x", ".", "t">>, 0, <<>>, FALSE, TRUE, TRUE), 4),
      At(File(<<"a", ".", "t", "x", "t">>, 5, <<>>, TRUE), 4)>>

\* files two directories down
DeepTree ==
    <<Dir(<<>>, TRUE),
      At(Dir(<<"c">>, TRUE), 1),
      At(File(<<"b", ".", "l", "o", "g">>, 1024 * 1024, <<>>, TRUE), 1),
      At(Dir(<<"d">>, TRUE), 2),
      At(File(<<"a", ".", "t", "x", "t">>, 1536, <<"E", "r", "r", "o", "r">>, TRUE), 4),
      At(Entry("other", <<"a", "b">>, 0, <<>>, TRUE, TRUE, TRUE), 4)>>

MainTrees == {ScenarioTree, BrokenTree, DeepTree, <<Dir(<<>>, TRUE)>>}

\* arguments of every kind: options with and without value, an unknown
\* option, paths of a directory, of a file and of nothing, numbers, size
\* filters, the empty string
ArgTokens ==
    {OptHelp, OptTree, OptJson, OptDepth, OptSize, <<"-", "-", "b", "o", "g", "u", "s">>,
     <<"p">>, <<"f">>, <<"x">>, <<"1">>, <<"-", "1">>,
     <<"=", "=", "5">>, <<">", "1", "K", "B">>, <<>>}

\* the root, any of the four report flags, a depth or none, a filter or none
ReportArgvs ==
    {<<<<"p">>>> \o tree \o stats \o json \o csv \o depth \o filter :
        tree \in {<<>>, <<OptTree>>},
        stats \in {<<>>, <<OptStats>>},
        json \in {<<>>, <<OptJson>>},
        csv \in {<<>>, <<OptCsv>>},
        depth \in {<<>>, <<OptDepth, <<"0">>>>, <<OptDepth, <<"1">>>>},
        filter \in {<<>>,
                    <<OptExt, <<".", "t", "x", "t">>>>,
                    <<OptName, <<"a", "*">>>>,
                    <<OptSize, <<">", "1", "K", "B">>>>,
                    <<OptSearch, <<"E", "R", "R", "O", "R">>>>}}

InitMain ==
    /\ pc = "main"
    /\ \/ /\ call \in [fn : {"main"}, argv : SeqsUpTo(ArgTokens, MaxArgs)]
          /\ fs = ScenarioTree
       \/ /\ call \in [fn : {"main"}, argv : ReportArgvs]
          /\ fs \in MainTrees
    /\ ret = Idle
    /\ options = Idle /\ scan = Idle
    /\ console = <<>> /\ exitCode = None
    /\ manager = Idle

SpecMain == InitMain /\ [][NextMain]_vars

----------------------------------------------------------------------------
(* Runs of main on directory structures with a cycle: a symbolic link to a *)
(* directory above it.  The script runs alone and synchronously, so a step  *)
(* that can be taken is taken: weak fairness on its steps.                  *)

MaxCycleDepth == 2

Link(name, target) == [link |-> target] @@ Dir(name, TRUE)

\* the root holds a link to itself
LoopTree ==
    <<Dir(<<>>, TRUE),
      At(File(<<"a", ".", "t", "x", "t">>, 10, <<>>, TRUE), 1),
      At(Link(<<"l">>, 1), 1)>>

\* a subdirectory holds a link back to the root
NestedLoopTree ==
    <<Dir(<<>>, TRUE),
      At(Dir(<<"c">>, TRUE), 1),
      At(Link(<<"u", "p">>, 1), 2),
      At(File(<<"d", ".", "t", "x", "t">>, 5, <<>>, TRUE), 2)>>

\* a subdirectory holds a link to itself
SelfLoopTree ==
    <<Dir(<<>>, TRUE),
      At(Dir(<<"c">>, TRUE), 1),
      At(File(<<"b", ".", "l", "o", "g">>, 2048, <<>>, TRUE), 2),
      At(Link(<<"s">>, 2), 2)>>

CycleTrees == {LoopTree, NestedLoopTree, SelfLoopTree}

\* the root with a depth limit, with or without the tree and a filter; a
\* help request, an unknown option and a path that does not exist
CycleArgvs ==
    {<<<<"p">>, OptDepth, NatToString(d)>> \o tree \o filter :
        d \in 0..MaxCycleDepth,
        tree \in {<<>>, <<OptTree>>},
        filter \in {<<>>, <<OptExt, <<".", "t", "x", "t">>>>}}
    \cup {<<OptHelp>>, <<<<"-", "-", "b", "o", "g", "u", "s">>>>, <<<<"x">>>>}

InitCycle ==
    /\ pc = "main"
    /\ call \in [fn : {"main"}, argv : CycleArgvs]
    /\ fs \in CycleTrees
    /\ ret = Idle
    /\ options = Idle /\ scan = Idle
    /\ console = <<>> /\ exitCode = None
    /\ manager = Idle

SpecCycle == InitCycle /\ [][NextMain]_vars /\ WF_vars(NextMain)

----------------------------------------------------------------------------
(* Calls of formatBytes on byte counts around the unit boundaries *)

LoParts ==
    {0, 1, 5, 10, 512, 1023, 1024, 1025, 1152, 1536, 2047, 2048, 10240,
     524288, 1048570, 1048575}
HiParts == {0, 1, 2, 1023, 1024, 1025, 1048576}

InitFormat ==
    /\ pc = "call"
    /\ call \in [fn : {"formatBytes"}, bytes : [hi : HiParts, lo : LoParts, den : {1}]]
    /\ ret = Idle
    /\ fs = Idle /\ options = Idle /\ scan = Idle
    /\ console = Idle /\ exitCode = Idle
    /\ manager = Idle

CallFormatBytes ==
    /\ pc = "call"
    /\ call.fn = "formatBytes"
    /\ ret' = formatBytes(call.bytes)
    /\ pc' = "returned"
    /\ UNCHANGED <<manager, call, fs, options, scan, console, exitCode>>

NextFormat == CallFormatBytes

SpecFormat == InitFormat /\ [][NextFormat]_vars

----------------------------------------------------------------------------
(* Calls of displayStats on collections of records *)

MaxFiles == 3

FileSizes == {0, 1023, 1024, 1024 * 1024, 1024 * 1024 * 1024 - 1, 1024 * 1024 * 1024}

InitStats ==
    /\ pc = "call"
    /\ call \in [fn : {"displayStats"},
                 files : SeqsUpTo([size : FileSizes,
                                   extension : {<<>>, <<".", "t">>, <<".", "j">>}],
                                  MaxFiles)]
    /\ ret = Idle
    /\ fs = Idle /\ options = Idle /\ scan = Idle
    /\ console = Idle /\ exitCode = Idle
    /\ manager = Idle

CallDisplayStats ==
    /\ pc = "call"
    /\ call.fn = "displayStats"
    /\ ret' = displayStats(call.files)
    /\ pc' = "returned"
    /\ UNCHANGED <<manager, call, fs, options, scan, console, exitCode>>

NextStats == CallDisplayStats

SpecStats == InitStats /\ [][NextStats]_vars

----------------------------------------------------------------------------
(* scanDirectory called a second time on the same tree with the same        *)
(* options object; ret keeps what the first call returned                   *)

MaxTwiceEntries == 2

InitTwice ==
    /\ pc = "scan"
    /\ fs \in Trees({Dir(<<>>, TRUE), Dir(<<>>, FALSE)},
                    FailingEntries \cup {File(<<"e", ".", "t">>, 5, <<"e", "R">>, TRUE),
                                         File(<<"r", ".", "t">>, 5, <<>>, FALSE)},
                    MaxTwiceEntries)
    /\ options \in [depth : Depths(MaxDepthOption),
                    extensions : {{}, {<<".", "t">>}},
                    namePattern : {None, Some(<<"(">>)},
                    sizeFilter : {None},
                    searchText : {None, Some(<<"e", "r">>)}]
    /\ scan = ScanCall
    /\ call = Idle /\ ret = Idle
    /\ console = Idle /\ exitCode = Idle
    /\ manager = Idle

\* the second call starting with the results array of the first
ScanAgainSharedResults ==
    /\ pc = "scanned"
    /\ ret = Idle
    /\ ret' = Some(scan)
    /\ scan' = [ScanCall EXCEPT !.stack[1].results = scan.files]
    /\ pc' = "scan"
    /\ UNCHANGED <<manager, call, fs, options, console, exitCode>>

\* the caller calls scanDirectory(absolutePath, 0, options) again: the new
\* call has its own results array
ScanAgain ==
    /\ pc = "scanned"
    /\ ret = Idle
    /\ ret' = Some(scan)
    /\ scan' = ScanCall
    /\ pc' = "scan"
    /\ UNCHANGED <<manager, call, fs, options, console, exitCode>>

NextTwice == Next \/ ScanAgain

SpecTwice == InitTwice /\ [][NextTwice]_vars

----------------------------------------------------------------------------
(* The documented forms the claims compare the code with *)

\* the glob of the design: '*' any run, '?' any one character, every other
\* character itself (ignoring case), the whole name from position j on
RECURSIVE GlobMatchesFrom(_, _, _, _)
GlobMatchesFrom(pattern, k, name, j) ==
    IF k > Len(pattern) THEN j = Len(name) + 1
    ELSE IF pattern[k] = "*"
    THEN \E m \in j..(Len(name) + 1) : GlobMatchesFrom(pattern, k + 1, name, m)
    ELSE /\ j <= Len(name)
         /\ pattern[k] = "?" \/ LowerChar(pattern[k]) = LowerChar(name[j])
         /\ GlobMatchesFrom(pattern, k + 1, name, j + 1)

GlobMatchesWhole(pattern, name) == GlobMatchesFrom(pattern, 1, name, 1)

GlobMatchesSomewhere(pattern, name) ==
    \E i \in 1..(Len(name) + 1) : \E j \in (i - 1)..Len(name) :
        GlobMatchesWhole(pattern, SubSeq(name, i, j))

OnlyLettersAndWildcards(pattern) ==
    \A k \in 1..Len(pattern) : pattern[k] \notin {".", "("}

IsSizeOperator(op) ==
    op \in {<<">">>, <<"<">>, <<"=">>, <<">", "=">>, <<"<", "=">>}

\* digits, optionally a point and digits
IsNumber(num) ==
    /\ Len(num) >= 1
    /\ \A k \in 1..Len(num) : IsDigit(num[k]) \/ num[k] = "."
    /\ Cardinality({k \in 1..Len(num) : num[k] = "."}) <= 1
    /\ num[1] # "." /\ num[Len(num)] # "."

\* the exponent k of 1024 a unit stands for, in any letter case; -1: no unit
UnitExponent(unit) ==
    LET u == toLowerCase(unit)
    IN IF u = <<>> \/ u = <<"b">> THEN 0
       ELSE IF u = <<"k", "b">> THEN 1
       ELSE IF u = <<"m", "b">> THEN 2
       ELSE IF u = <<"g", "b">> THEN 3
       ELSE -1

HasDocumentedForm(str) ==
    \E i \in 1..2 : \E j \in i..Len(str) :
        /\ IsSizeOperator(SubSeq(str, 1, i))
        /\ IsNumber(SubSeq(str, i + 1, j))
        /\ UnitExponent(SubSeq(str, j + 1, Len(str))) >= 0

RECURSIVE Times1024(_, _)
Times1024(b, k) == IF k = 0 THEN b ELSE Times1024(BigScale(b, 1024), k - 1)

\* number x 1024^k, with the number's fractional digits as the denominator
ExpectedBytes(num, unit) ==
    LET point == {k \in 1..Len(num) : num[k] = "."}
        frac == IF point = {} THEN 0 ELSE Len(num) - (CHOOSE k \in point : TRUE)
        digits == SelectSeq(num, IsDigit)
        b == Times1024(ToBig(DigitsValue(digits)), UnitExponent(unit))
    IN [hi |-> b.hi, lo |-> b.lo, den |-> Pow10(frac)]

\* the rational n/den is a whole number
IsWhole(bytes) ==
    (((bytes.hi % bytes.den) * (Limb % bytes.den)) + bytes.lo) % bytes.den = 0

----------------------------------------------------------------------------
(* Calls of matchesSizeFilter with the filters parseSizeFilter produces *)

TestSizes == {0, 1, 5, 6, 1023, 1024, 1025, 1536, 1024 * 1024, 1024 * 1024 * 1024}

\* with options.sizeFilter left null, or parsed from the --size string
InitSizeTest ==
    /\ pc = "call"
    /\ \/ call \in [fn : {"parseSizeFilter"}, filterStr : SizeFilterStrings]
       \/ call \in [fn : {"matchesSizeFilter"}, fileSize : TestSizes, sizeFilter : {None}]
    /\ ret = Idle
    /\ fs = Idle /\ options = Idle /\ scan = Idle
    /\ console = Idle /\ exitCode = Idle
    /\ manager = Idle

\* matchesSizeFilter(fileInfo.size, options.sizeFilter), the filter being
\* null or the one parseSizeFilter has just returned
CallMatchesSizeFilter ==
    /\ \/ /\ pc = "call"
          /\ call.fn = "matchesSizeFilter"
          /\ UNCHANGED call
       \/ /\ pc = "returned"
          /\ call.fn = "parseSizeFilter"
          /\ ~ret.throws
          /\ \E fileSize \in TestSizes :
                call' = [fn |-> "matchesSizeFilter", fileSize |-> fileSize,
                         sizeFilter |-> Some(ret.value)]
    /\ ret' = Returned(matchesSizeFilter(call'.fileSize, call'.sizeFilter))
    /\ pc' = "tested"
    /\ UNCHANGED <<manager, fs, options, scan, console, exitCode>>

NextSizeTest == CallParseSizeFilter \/ CallMatchesSizeFilter

SpecSizeTest == InitSizeTest /\ [][NextSizeTest]_vars

----------------------------------------------------------------------------
(* Calls of displayTree on directory trees *)

MaxTreeEntries == 3

\* directories and files whose names differ in case, a directory that
\* cannot be listed and an entry that cannot be stat'ed
TreeEntries ==
    {Dir(<<"b">>, TRUE), Dir(<<"A">>, TRUE), Dir(<<"u">>, FALSE),
     File(<<"a", ".", "t">>, 5, <<>>, TRUE),
     File(<<"A", ".", "t">>, 0, <<>>, TRUE),
     File(<<"B">>, 2048, <<>>, TRUE),
     Entry("file", <<"x">>, 0, <<>>, FALSE, TRUE, TRUE)}

InitTree ==
    /\ pc = "call"
    /\ call \in [fn : {"displayTree"}, maxDepth : Depths(MaxDepthOption)]
    /\ fs \in Trees({Dir(<<>>, TRUE)}, TreeEntries, MaxTreeEntries)
               \cup {<<Dir(<<>>, FALSE)>>}
    /\ ret = Idle
    /\ options = Idle /\ scan = Idle
    /\ console = Idle /\ exitCode = Idle
    /\ manager = Idle

\* displayTree(absolutePath, 0, options.depth)
CallDisplayTree ==
    /\ pc = "call"
    /\ call.fn = "displayTree"
    /\ ret' = displayTree(fs, Root, 0, call.maxDepth, <<>>)
    /\ pc' = "returned"
    /\ UNCHANGED <<manager, call, fs, options, scan, console, exitCode>>

NextTree == CallDisplayTree

SpecTree == InitTree /\ [][NextTree]_vars

----------------------------------------------------------------------------
(* The Config Manager CLI (day 08): the ConfigManager class and calls of    *)
(* its methods set and get.  A JavaScript value is a record tagged with     *)
(* what typeof says of it, except null, whose typeof is "object"; an        *)
(* object is a function from its own keys to values.                        *)

Undefined == [undefined |-> TRUE]
Null == [null |-> TRUE]
BooleanValue(b) == [boolean |-> b]
NumberValue(n) == [number |-> n]
StringValue(s) == [string |-> s]
ObjectValue(props) == [props |-> props]
EmptyObject == ObjectValue(<<>>)

IsObject(v) == "props" \in DOMAIN v

\* typeof v
typeof(v) ==
    IF v = Undefined THEN "undefined"
    ELSE IF v = Null \/ IsObject(v) THEN "object"
    ELSE IF "boolean" \in DOMAIN v THEN "boolean"
    ELSE IF "number" \in DOMAIN v THEN "number"
    ELSE "string"

\* the operand of acc && ...: false for undefined, null, false, 0 and ""
Truthy(v) ==
    IF v = Undefined \/ v = Null THEN FALSE
    ELSE IF "boolean" \in DOMAIN v THEN v.boolean
    ELSE IF "number" \in DOMAIN v THEN v.number # 0
    ELSE IF "string" \in DOMAIN v THEN v.string # <<>>
    ELSE TRUE

\* acc[part] of a value other than null and undefined: an own key of an
\* object; a key made of the characters of KeyChars names no index of a
\* string and no property of a prototype, so every other read is undefined
Property(v, part) ==
    IF IsObject(v) /\ part \in DOMAIN v.props THEN v.props[part] ELSE Undefined

\* current[part] = value on an object
Assign(obj, part, value) ==
    ObjectValue([key \in DOMAIN obj.props \cup {part} |->
                IF key = part THEN value ELSE obj.props[key]])

\* keyPath.split('.'): the pieces between the dots
RECURSIVE splitKeyPath(_, _)
splitKeyPath(keyPath, piece) ==
    IF keyPath = <<>> THEN <<piece>>
    ELSE IF Head(keyPath) = "." THEN <<piece>> \o splitKeyPath(Tail(keyPath), <<>>)
    ELSE splitKeyPath(Tail(keyPath), Append(piece, Head(keyPath)))

\* the reduce of get: acc && acc[part] !== undefined ? acc[part] : undefined
RECURSIVE getReduce(_, _)
getReduce(acc, parts) ==
    IF parts = <<>> THEN acc
    ELSE getReduce(IF Truthy(acc) /\ Property(acc, Head(parts)) # Undefined
                   THEN Property(acc, Head(parts))
                   ELSE Undefined,
                   Tail(parts))

\* ConfigManager.get(keyPath) on the configuration config
get(config, keyPath) == getReduce(config, splitKeyPath(keyPath, <<>>))

TypeError(object) == [throws |-> TRUE, error |-> "TypeError", object |-> object]

\* what the if of the loop of set leaves in current[part]
Replaced(child) ==
    IF child = Undefined \/ typeof(child) # "object" THEN EmptyObject ELSE child

\* the loop of set and its last assignment, from current on: what current
\* holds afterwards, or the TypeError of reading or writing a property of
\* null
RECURSIVE setFrom(_, _, _)
setFrom(current, parts, value) ==
    IF current = Null THEN TypeError(current)
    ELSE IF Len(parts) = 1
    THEN [throws |-> FALSE, object |-> Assign(current, parts[1], value)]
    ELSE LET below == setFrom(Replaced(Property(current, parts[1])), Tail(parts), value)
         IN [below EXCEPT !.object = Assign(current, parts[1], below.object)]

\* JSON.stringify(this.config, null, 2), as the value JSON.parse reads
\* back: keys holding undefined are left out
RECURSIVE stringify(_)
stringify(v) ==
    IF IsObject(v)
    THEN ObjectValue([key \in {k \in DOMAIN v.props : v.props[k] # Undefined} |->
                    stringify(v.props[key])])
    ELSE v

\* save(): what writeFileSync leaves in the file, when it succeeds
ConfigFile(config) == [CONFIG_FILE |-> stringify(config)]

MaxKeyLen == 3

KeyChars == {"a", "."}
KeyPaths == SeqsUpTo(KeyChars, MaxKeyLen)

SetValues ==
    {Undefined, Null, BooleanValue(FALSE), NumberValue(1), StringValue(<<"s">>), EmptyObject}

InnerObjects ==
    {ObjectValue(props) : props \in UNION {[keys -> {Null, StringValue(<<"s">>)}] :
                                         keys \in SUBSET {<<"a">>, <<"b">>}}}

\* configurations JSON.parse can load: the keys a and b, a holding a
\* primitive, null or an object
PriorConfigs ==
    {ObjectValue([key \in keys |-> IF key = <<"a">> THEN a ELSE b]) :
        keys \in SUBSET {<<"a">>, <<"b">>},
        a \in {Null, BooleanValue(TRUE), NumberValue(0), StringValue(<<"s">>)} \cup InnerObjects,
        b \in {Null, NumberValue(1)}}

\* after new ConfigManager(CONFIG_FILE) has loaded an existing file
InitConfig ==
    /\ pc = "ready"
    /\ \E config \in PriorConfigs :
          /\ manager = [config |-> config]
          /\ fs = ConfigFile(config)
    /\ call = Idle /\ ret = Idle
    /\ options = Idle /\ scan = Idle
    /\ console = <<>> /\ exitCode = None

\* manager.set(keyPath, value), save() included; an uncaught TypeError ends
\* the process
CallSet ==
    /\ pc = "ready"
    /\ \E keyPath \in KeyPaths, value \in SetValues, written \in BOOLEAN :
          LET result == setFrom(manager.config, splitKeyPath(keyPath, <<>>), value)
          IN /\ call' = [fn |-> "set", keyPath |-> keyPath, value |-> value]
             /\ manager' = [manager EXCEPT !.config = result.object]
             /\ IF result.throws
                THEN /\ written
                     /\ ret' = [throws |-> TRUE, error |-> result.error]
                     /\ pc' = "thrown"
                     /\ exitCode' = Some(1)
                     /\ UNCHANGED <<fs, console>>
                ELSE /\ ret' = Returned(Undefined)
                     /\ pc' = "updated"
                     /\ UNCHANGED exitCode
                     /\ IF written
                        THEN /\ fs' = ConfigFile(result.object)
                             /\ UNCHANGED console
                        ELSE /\ console' = Append(console,
                                      Line("error", <<"Error: Failed to save configuration:">>))
                             /\ UNCHANGED fs
    /\ UNCHANGED <<options, scan>>

\* manager.get(keyPath)
CallGet ==
    /\ pc \in {"ready", "updated"}
    /\ \E keyPath \in KeyPaths :
          /\ call' = [fn |-> "get", keyPath |-> keyPath]
          /\ ret' = Returned(get(manager.config, keyPath))
    /\ pc' = "returned"
    /\ UNCHANGED <<manager, fs, options, scan, console, exitCode>>

NextConfig == CallSet \/ CallGet

SpecConfig == InitConfig /\ [][NextConfig]_vars

----------------------------------------------------------------------------
(* Claims about matchesNamePattern (specification SpecName) *)

\* C3: the name test is anchored to the entire file name: for a pattern of
\* letters and wildcards, matchesNamePattern returns true only when the whole
\* name, from its first to its last character, matches the glob.
NameTestAnchored ==
    (pc = "returned" /\ IsSet(call.pattern) /\ OnlyLettersAndWildcards(call.pattern[1])
        /\ ~ret.throws /\ ret.value)
    => GlobMatchesWhole(call.pattern[1], call.fileName)

\* C4: every character of a pattern other than '*' and '?' is matched
\* literally, and no pattern makes the matcher fail: the test returns, and
\* what it returns is whether the glob, read with every other character
\* standing for itself, matches somewhere in the name.
NameTestLiteral ==
    (pc = "returned" /\ IsSet(call.pattern) /\ call.pattern[1] # <<>>)
    => /\ ~ret.throws
       /\ ret.value = GlobMatchesSomewhere(call.pattern[1], call.fileName)

----------------------------------------------------------------------------
(* Claims about parseSizeFilter (specification SpecSize) *)

\* C5: on a string <operator><number>[<unit>], with the unit in any letter
\* case, parseSizeFilter returns that operator and number x 1024^k bytes;
\* ">1MB" gives ">" with 1048576 bytes and "<=500" gives "<=" with 500 bytes.
SizeFilterParsed ==
    pc = "returned" =>
        /\ \A i \in 1..2 : \A j \in i..Len(call.filterStr) :
              LET op == SubSeq(call.filterStr, 1, i)
                  num == SubSeq(call.filterStr, i + 1, j)
                  unit == SubSeq(call.filterStr, j + 1, Len(call.filterStr))
              IN (IsSizeOperator(op) /\ IsNumber(num) /\ UnitExponent(unit) >= 0)
                 => /\ ~ret.throws
                    /\ ret.value.operator = op
                    /\ ret.value.bytes = ExpectedBytes(num, unit)
        /\ call.filterStr = <<">", "1", "M", "B">>
           => ret = [throws |-> FALSE,
                     value |-> [operator |-> <<">">>, bytes |-> [hi |-> 1, lo |-> 0, den |-> 1]]]
        /\ call.filterStr = <<"<", "=", "5", "0", "0">>
           => ret = [throws |-> FALSE,
                     value |-> [operator |-> <<"<", "=">>, bytes |-> [hi |-> 0, lo |-> 500, den |-> 1]]]

\* a fractional number with a lower-case unit has been parsed: ">1.5kb"
SizeFilterParsedWitness ==
    /\ pc = "returned"
    /\ call.filterStr = <<">", "1", ".", "5", "k", "b">>
    /\ ~ret.throws
    /\ ret.value.operator = <<">">>
    /\ ret.value.bytes = [hi |-> 0, lo |-> 15 * 1024, den |-> 10]

\* C6: parseSizeFilter fails for every string that does not have the form
\* <operator><number>[<unit>] with the operator one of > < = >= <=.
SizeFilterRejectsMalformed ==
    (pc = "returned" /\ ~HasDocumentedForm(call.filterStr)) => ret.throws

\* C7: every size filter parseSizeFilter accepts has an operator among
\* > < = >= <= and a threshold that is a non-negative whole number of bytes.
SizeFilterWellFormed ==
    (pc = "returned" /\ ~ret.throws)
    => /\ IsSizeOperator(ret.value.operator)
       /\ ret.value.bytes.hi >= 0 /\ ret.value.bytes.lo >= 0
       /\ IsWhole(ret.value.bytes)

----------------------------------------------------------------------------
(* Claims about scanDirectory (specifications Spec and SpecFilter) *)

\* directory levels between the root and entry i: 0 for the root's entries
RECURSIVE DepthOf(_, _)
DepthOf(fsys, i) ==
    IF fsys[i].parent = Root THEN 0 ELSE 1 + DepthOf(fsys, fsys[i].parent)

\* the directories entry i lies in, the root included
RECURSIVE Ancestors(_, _)
Ancestors(fsys, i) ==
    IF i = Root THEN {} ELSE {fsys[i].parent} \cup Ancestors(fsys, fsys[i].parent)

WithinDepth(i) == options.depth.inf \/ DepthOf(fs, i) <= options.depth.n

Emitted(files) == {files[k].node : k \in 1..Len(files)}

Count(x, seq) == Cardinality({k \in 1..Len(seq) : seq[k] = x})

AllReadable ==
    \A i \in 1..Len(fs) : fs[i].statOk /\ fs[i].listOk

\* the four tests as the design words them, the name test being the
\* script's matcher returning true
PassesAllFilters(file) ==
    /\ options.extensions = {} \/ toLowerCase(extname(file.name)) \in options.extensions
    /\ ~IsSet(options.namePattern)
       \/ matchesNamePattern(file.name, options.namePattern) = Returned(TRUE)
    /\ ~IsSet(options.sizeFilter) \/ matchesSizeFilter(file.size, options.sizeFilter)
    /\ ~IsSet(options.searchText)
       \/ (file.readOk /\ includes(toLowerCase(file.content), toLowerCase(options.searchText[1])))

\* C1: in a tree whose directories can all be listed and whose entries can
\* all be stat'ed, the scan returns a regular file at depth <= maxDepth if
\* and only if it passes the four filters together, each file once; with no
\* filter set the result is exactly the regular files at depth <= maxDepth.
FilterConjunction ==
    (pc = "scanned" /\ AllReadable) =>
        /\ \A i \in 2..Len(fs) :
              i \in Emitted(scan.files)
              <=> (fs[i].kind = "file" /\ WithinDepth(i) /\ PassesAllFilters(fs[i]))
        /\ \A k, m \in 1..Len(scan.files) :
              scan.files[k].node = scan.files[m].node => k = m
        /\ (options.extensions = {} /\ ~IsSet(options.namePattern)
              /\ ~IsSet(options.sizeFilter) /\ ~IsSet(options.searchText))
           => Emitted(scan.files) =
                 {i \in 2..Len(fs) : fs[i].kind = "file" /\ WithinDepth(i)}

\* a scan under all four filters that returned one file and left out another
FilterConjunctionWitness ==
    /\ pc = "scanned"
    /\ options.extensions # {} /\ IsSet(options.namePattern)
    /\ IsSet(options.sizeFilter) /\ IsSet(options.searchText)
    /\ Len(scan.files) = 1
    /\ \E i \in 2..Len(fs) :
          fs[i].kind = "file" /\ WithinDepth(i) /\ i \notin Emitted(scan.files)

\* C2: with maxDepth = d, every record a call holds or the scan returned lies
\* at a depth <= d below the root, whatever the tree and the filters.
DepthInvariant ==
    pc \in {"scan", "scanned"} =>
        /\ \A k \in 1..Len(scan.files) : WithinDepth(scan.files[k].node)
        /\ \A f \in 1..Len(scan.stack) : \A k \in 1..Len(scan.stack[f].results) :
              WithinDepth(scan.stack[f].results[k].node)

\* a finished scan under a finite bound that returned a file and left out a
\* file lying deeper than the bound in a directory it could have listed
DepthInvariantWitness ==
    /\ pc = "scanned"
    /\ ~options.depth.inf
    /\ scan.files # <<>>
    /\ \E i \in 2..Len(fs) :
          /\ fs[i].kind = "file" /\ fs[i].statOk
          /\ DepthOf(fs, i) > options.depth.n
          /\ \A d \in Ancestors(fs, i) : fs[d].listOk /\ fs[d].statOk
          /\ options.extensions = {}

\* C8: a stat failure on one entry skips only that entry: no record is made
\* for it, and every other file that passes the filters, in the same
\* directory and in the rest of the tree, is still returned.
StatFailureSkipsOnlyEntry ==
    pc = "scanned" =>
        \A i \in 2..Len(fs) :
            IF ~fs[i].statOk THEN i \notin Emitted(scan.files)
            ELSE (/\ fs[i].kind = "file" /\ WithinDepth(i) /\ PassesAllFilters(fs[i])
                  /\ \A d \in Ancestors(fs, i) : fs[d].listOk /\ fs[d].statOk)
                 => i \in Emitted(scan.files)

\* the tree with every unlistable directory listable and empty
Emptied(fsys) ==
    [i \in 1..Len(fsys) |->
        IF \E d \in Ancestors(fsys, i) : ~fsys[d].listOk
        THEN [fsys[i] EXCEPT !.parent = 0]
        ELSE [fsys[i] EXCEPT !.listOk = TRUE]]

\* C9: a directory that cannot be listed gets exactly one warning, nothing
\* below it is returned, and the scan continues: it lists the same
\* directories and returns the same records, in the same order, as it does
\* when that directory is empty.
UnlistableDirectory ==
    pc = "scanned" =>
        LET empty == RunScan(Emptied(fs), options, ScanCall)
        IN /\ scan.files = empty.files
           /\ scan.listings = empty.listings
           /\ \A d \in 1..Len(fs) :
                 ~fs[d].listOk =>
                    /\ Count(d, scan.listings) <= 1
                    /\ Count(d, scan.warnings) = Count(d, scan.listings)
           /\ \A k \in 1..Len(scan.files) :
                 \A d \in Ancestors(fs, scan.files[k].node) : fs[d].listOk

\* a scan that met an unlistable directory, warned once, and returned a file
\* enumerated before it and a file enumerated after it
UnlistableDirectoryWitness ==
    /\ pc = "scanned"
    /\ \E d \in 2..Len(fs) :
          /\ fs[d].kind = "dir" /\ ~fs[d].listOk
          /\ Count(d, scan.warnings) = 1
          /\ \E i, j \in Emitted(scan.files) : i < d /\ d < j

\* the tree with every unreadable file readable and empty
MadeReadable(fsys) ==
    [i \in 1..Len(fsys) |-> [fsys[i] EXCEPT !.readOk = TRUE,
                                            !.content = IF fsys[i].readOk THEN @ ELSE <<>>]]

\* C10: when search text is set, a file whose content cannot be read is a
\* non-match: it is not returned, no warning is given for it, and the scan
\* returns for the other entries what it returns when the file is readable
\* and does not contain the text.
UnreadableFileIsNonMatch ==
    (pc = "scanned" /\ IsSet(options.searchText)) =>
        LET readable == RunScan(MadeReadable(fs), options, ScanCall)
        IN /\ \A k \in 1..Len(scan.files) : fs[scan.files[k].node].readOk
           /\ scan.files = readable.files
           /\ scan.warnings = readable.warnings
           /\ scan.listings = readable.listings

\* a scan with search text that tried to read an unreadable file, gave no
\* warning and returned a file enumerated after it
UnreadableFileWitness ==
    /\ pc = "scanned"
    /\ IsSet(options.searchText)
    /\ scan.warnings = <<>>
    /\ \E i \in 2..Len(fs) :
          /\ ~fs[i].readOk
          /\ Count(i, scan.reads) = 1
          /\ \E j \in Emitted(scan.files) : j > i /\ fs[j].parent = fs[i].parent

----------------------------------------------------------------------------
(* Claims about formatBytes (specification SpecFormat) *)

\* how often the byte count can be divided by 1024 before it is below 1024,
\* at most up to GB
ExpectedUnitIndex(bytes) ==
    IF BigCompare(bytes, ToBig(1024)) < 0 THEN 0
    ELSE IF BigCompare(bytes, ToBig(1024 * 1024)) < 0 THEN 1
    ELSE IF BigCompare(bytes, ToBig(1024 * 1024 * 1024)) < 0 THEN 2
    ELSE 3

\* str is digits, a point, two digits, a space and the unit
HasTwoDecimalsAndUnit(str, unit) ==
    LET n == Len(str) - Len(unit)
    IN /\ n >= 5
       /\ SubSeq(str, n + 1, Len(str)) = unit
       /\ str[n] = " "
       /\ IsDigit(str[n - 1]) /\ IsDigit(str[n - 2])
       /\ str[n - 3] = "."
       /\ \A k \in 1..(n - 4) : IsDigit(str[k])
       /\ n - 4 > 1 => str[1] # "0"

\* the hundredths a string of that form denotes
PrintedCents(str, unit) ==
    LET n == Len(str) - Len(unit)
    IN DigitsValue(SubSeq(str, 1, n - 4) \o SubSeq(str, n - 2, n - 1))

----------------------------------------------------------------------------
(* Claims about displayStats (specification SpecStats) *)

RECURSIVE SumOfCounts(_)
SumOfCounts(entries) ==
    IF entries = <<>> THEN 0 ELSE Head(entries).count + SumOfCounts(Tail(entries))

BucketSum(d) == d.small + d.medium + d.large + d.huge

\* C15: for every collection, the empty one included, the four size buckets
\* <1KB, [1KB,1MB), [1MB,1GB), >=1GB hold the files of those ranges and sum to
\* the total file count, each file counted in exactly one bucket, and the
\* extension counts (files without extension under "(no extension)") sum to
\* the total file count too.
StatsConsistent ==
    pc = "returned" =>
        LET files == call.files
            ks == 1..Len(files)
            d == ret.sizeDistribution
        IN /\ ret.totalFiles = Len(files)
           /\ BucketSum(d) = ret.totalFiles
           /\ d.small = Cardinality({k \in ks : files[k].size < 1024})
           /\ d.medium = Cardinality({k \in ks : 1024 <= files[k].size
                                                  /\ files[k].size < 1024 * 1024})
           /\ d.large = Cardinality({k \in ks : 1024 * 1024 <= files[k].size
                                                 /\ files[k].size < 1024 * 1024 * 1024})
           /\ d.huge = Cardinality({k \in ks : files[k].size >= 1024 * 1024 * 1024})
           /\ \A k \in ks : BucketSum(sizeDistribution(<<files[k]>>)) = 1
           /\ SumOfCounts(ret.extensionCounts) = ret.totalFiles
           /\ \A i, j \in 1..Len(ret.extensionCounts) :
                 ret.extensionCounts[i].ext = ret.extensionCounts[j].ext => i = j
           /\ \A e \in 1..Len(ret.extensionCounts) :
                 LET entry == ret.extensionCounts[e]
                 IN entry.count =
                       Cardinality({k \in ks :
                          IF entry.ext = NoExtension THEN files[k].extension = <<>>
                          ELSE files[k].extension = entry.ext})

\* statistics of three files, one exactly 1 KB large and two without extension
StatsConsistentWitness ==
    /\ pc = "returned"
    /\ ret.totalFiles = 3
    /\ ret.sizeDistribution.medium >= 1
    /\ \E k \in 1..3 : call.files[k].size = 1024
    /\ \E e \in 1..Len(ret.extensionCounts) :
          ret.extensionCounts[e] = [ext |-> NoExtension, count |-> 2]

----------------------------------------------------------------------------
(* Claims about the records of scanDirectory (specification Spec) *)

\* the entry a root-relative path names: each segment is the name of an
\* entry of the directory reached so far; 0 when there is none
RECURSIVE Resolve(_, _, _)
Resolve(fsys, dir, path) ==
    IF path = <<>> THEN dir
    ELSE LET next == {i \in 2..Len(fsys) : fsys[i].parent = dir /\ fsys[i].name = Head(path)}
         IN IF next = {} THEN 0
            ELSE Resolve(fsys, CHOOSE i \in next : TRUE, Tail(path))

RecordWellFormed(r) ==
    /\ fs[r.node].kind = "file"
    /\ r.name = fs[r.node].name
    /\ r.relativePath # <<>>
    /\ r.relativePath[1] # <<".", ".">>
    /\ Resolve(fs, Root, r.relativePath) = r.node
    /\ r.extension = toLowerCase(r.extension)
    /\ toLowerCase(SubSeq(r.name, Len(r.name) - Len(r.extension) + 1, Len(r.name)))
          = r.extension
    /\ r.extension = <<>>
          <=> \A k \in 2..Len(r.name) : r.name[k] # "."
    /\ r.size >= 0

\* C16: every record a call holds or the scan returned describes a regular
\* file, never a directory or another kind of entry; its relativePath leads
\* from the root to the file and does not start with "..", its extension is
\* lowercase (empty when the name has none), and its size is >= 0.
RecordsWellFormed ==
    pc \in {"scan", "scanned"} =>
        /\ \A k \in 1..Len(scan.files) : RecordWellFormed(scan.files[k])
        /\ \A f \in 1..Len(scan.stack) : \A k \in 1..Len(scan.stack[f].results) :
              RecordWellFormed(scan.stack[f].results[k])

\* a finished scan that returned a file whose name spells its extension in
\* capitals, in a tree that also holds an entry that is neither file nor
\* directory
RecordsWellFormedWitness ==
    /\ pc = "scanned"
    /\ \E k \in 1..Len(scan.files) :
          /\ extname(scan.files[k].name) # scan.files[k].extension
          /\ Len(scan.files[k].relativePath) = 2
    /\ \E i \in 2..Len(fs) : fs[i].kind = "other"

----------------------------------------------------------------------------
(* Claims about repeated scans (specification SpecTwice) *)

----------------------------------------------------------------------------
(* Claims about main (specification SpecMain) *)

Among(arg, args) == \E k \in 1..Len(args) : args[k] = arg

Printed(text) == \E k \in 1..Len(console) : console[k].text = text

ValueOptions == {OptDepth, OptExt, OptName, OptSize, OptSearch}
FlagOptions == {OptTree, OptStats, OptJson, OptCsv, OptHelp}

IsOption(arg) == startsWith(arg, <<"-", "-">>)

HasValue(args, i) ==
    i + 1 <= Len(args) /\ args[i + 1] # <<>> /\ ~IsOption(args[i + 1])

\* some argument from index i on is neither an option nor an option's value
RECURSIVE SuppliesPath(_, _)
SuppliesPath(args, i) ==
    IF i > Len(args) THEN FALSE
    ELSE IF ~IsOption(args[i]) THEN TRUE
    ELSE IF args[i] \in ValueOptions /\ HasValue(args, i) THEN SuppliesPath(args, i + 2)
    ELSE SuppliesPath(args, i + 1)

IsNonNegativeNumber(str) ==
    str # <<>> /\ \A k \in 1..Len(str) : IsDigit(str[k])

\* the configuration errors of the design from index i on: an unknown
\* option, an option without its value, an invalid depth, an invalid size
\* filter, a second positional argument (a missing path is added where the
\* whole argument list is judged)
RECURSIVE ConfigurationError(_, _, _)
ConfigurationError(args, i, seenPath) ==
    IF i > Len(args) THEN FALSE
    ELSE IF ~IsOption(args[i])
    THEN seenPath \/ ConfigurationError(args, i + 1, TRUE)
    ELSE IF args[i] \in FlagOptions THEN ConfigurationError(args, i + 1, seenPath)
    ELSE IF args[i] \notin ValueOptions THEN TRUE
    ELSE IF ~HasValue(args, i) THEN TRUE
    ELSE IF args[i] = OptDepth /\ ~IsNonNegativeNumber(args[i + 1]) THEN TRUE
    ELSE IF args[i] = OptSize /\ ~HasDocumentedForm(args[i + 1]) THEN TRUE
    ELSE ConfigurationError(args, i + 2, seenPath)

\* the first argument that is neither an option nor an option's value, the
\* empty string when there is none
RECURSIVE PathArgument(_, _)
PathArgument(args, i) ==
    IF i > Len(args) THEN <<>>
    ELSE IF ~IsOption(args[i]) THEN args[i]
    ELSE IF args[i] \in ValueOptions /\ HasValue(args, i) THEN PathArgument(args, i + 2)
    ELSE PathArgument(args, i + 1)

ScanCompleted == scan # Idle /\ scan.done

\* C11: in a run that completes its scan, each of --tree, --stats, --json and
\* --csv that is given gets its report, whatever the other three are, and the
\* flat list is printed if and only if none of the four is given.
ReportsFollowFlags ==
    (pc = "exited" /\ exitCode = Some(0) /\ ScanCompleted) =>
        /\ Printed(<<"\nDirectory Tree">>) <=> Among(OptTree, call.argv)
        /\ Printed(<<"\nStatistics">>) <=> Among(OptStats, call.argv)
        /\ Printed(<<"\nJSON Output">>) <=> Among(OptJson, call.argv)
        /\ Printed(<<"\nCSV Output">>) <=> Among(OptCsv, call.argv)
        /\ Printed(<<"\nFound Files">>)
              <=> \A flag \in {OptTree, OptStats, OptJson, OptCsv} : ~Among(flag, call.argv)

\* C12: a run without a positional path argument and without --help ends
\* with exit code 1 and no scan; exit code 0 comes only from a completed scan
\* or from --help.
PathRequired ==
    pc = "exited" =>
        /\ (~Among(OptHelp, call.argv) /\ ~SuppliesPath(call.argv, 1))
           => (exitCode = Some(1) /\ scan = Idle)
        /\ exitCode = Some(0) => (ScanCompleted \/ Among(OptHelp, call.argv))

\* C12 as amended: a run with at least one argument, none of them a
\* positional path and none --help, ends with exit code 1 and no scan; exit
\* code 0 comes only from a completed scan, from --help, or from a run with
\* no argument at all, which prints the usage text.
PathRequiredUnlessNoArguments ==
    pc = "exited" =>
        /\ (call.argv # <<>> /\ ~Among(OptHelp, call.argv) /\ ~SuppliesPath(call.argv, 1))
           => (exitCode = Some(1) /\ scan = Idle)
        /\ exitCode = Some(0)
           => (ScanCompleted \/ Among(OptHelp, call.argv) \/ call.argv = <<>>)
        /\ call.argv = <<>>
           => (exitCode = Some(0) /\ scan = Idle /\ Printed(HELP_TEXT))

\* a run with arguments, none of them a path or --help, has exited with 1
PathRequiredWitness ==
    /\ pc = "exited"
    /\ Len(call.argv) >= 2
    /\ ~Among(OptHelp, call.argv)
    /\ \A k \in 1..Len(call.argv) : call.argv[k] \in FlagOptions
    /\ exitCode = Some(1)

\* C13: nothing is listed, by the scan or by the tree rendering, unless the
\* arguments hold no configuration error and the root path is a directory; a
\* run (not asking for help) with a configuration error or with a root path
\* that is missing or not a directory ends with exit code 1, an error message
\* and no scan or report output, the usage text following the message of a
\* configuration error.
FatalErrorsBeforeTraversal ==
    LET args == call.argv
        faulty == ConfigurationError(args, 1, FALSE) \/ PathArgument(args, 1) = <<>>
        rootError == ~faulty /\ rootStat(PathArgument(args, 1)) # "dir"
    IN (pc # "main" /\ args # <<>> /\ ~Among(OptHelp, args)) =>
          /\ (scan # Idle \/ Printed(<<"\nDirectory Tree">>))
             => (~faulty /\ ~rootError)
          /\ (pc = "exited" /\ (faulty \/ rootError))
             => /\ exitCode = Some(1)
                /\ scan = Idle
                /\ console[1].stream = "error"
                /\ Len(console) = IF faulty THEN 2 ELSE 1
                /\ faulty => console[2] = Line("log", HELP_TEXT)

\* C14: when --help is among the arguments, whatever the others are, the run
\* prints the banner and the usage text and exits with code 0: nothing is
\* parsed, no error is reported, nothing is scanned or rendered.
HelpWins ==
    (pc # "main" /\ Among(OptHelp, call.argv)) =>
        /\ pc = "exited"
        /\ exitCode = Some(0)
        /\ console = <<Banner, Line("log", HELP_TEXT)>>
        /\ options = Idle
        /\ scan = Idle

\* --help after an unknown option and before a path: usage, exit code 0
HelpWinsWitness ==
    /\ pc = "exited"
    /\ Len(call.argv) = 3
    /\ ~IsOption(call.argv[3])
    /\ call.argv[2] = OptHelp
    /\ call.argv[1] \notin FlagOptions \cup ValueOptions
    /\ IsOption(call.argv[1])
    /\ exitCode = Some(0)

Given(option, value) ==
    \E k \in 1..(Len(call.argv) - 1) : call.argv[k] = option /\ call.argv[k + 1] = value

ReportHeaders == {<<"\nStatistics">>, <<"\nJSON Output">>, <<"\nCSV Output">>}

\* the lines printed between the rule under the tree's heading and the next
\* report's heading (or the closing line of the run)
TreeSection ==
    LET h == CHOOSE k \in 1..Len(console) : console[k].text = <<"\nDirectory Tree">>
        ends == {k \in (h + 1)..Len(console) :
                    console[k].text \in ReportHeaders \/ k = Len(console)}
        e == CHOOSE k \in ends : \A m \in ends : k <= m
    IN SubSeq(console, h + 2, e - 1)

\* C18: the tree printed by a run is the rendering of the whole hierarchy
\* down to the depth limit, whatever extension, name, size or search filter
\* the run was given: runs that differ only in their filters print the same
\* tree lines.
TreeIgnoresFilters ==
    (pc = "exited" /\ ScanCompleted /\ Among(OptTree, call.argv)) =>
        TreeSection = displayTree(fs, Root, 0, options.depth, <<>>).lines

\* a run with a filter that matched no file has printed a tree that names
\* files
TreeIgnoresFiltersWitness ==
    /\ pc = "exited"
    /\ ScanCompleted
    /\ Among(OptTree, call.argv)
    /\ \E option \in {OptExt, OptName, OptSize, OptSearch} : Among(option, call.argv)
    /\ scan.files = <<>>
    /\ \E k \in 1..Len(TreeSection) :
          TreeSection[k].text[Len(TreeSection[k].text)] = ")"

\* C20: on the root holding a.txt (10 bytes), b.log (2048 bytes, containing
\* ERROR) and c/ holding d.txt (5 bytes), a scan with depth 1 and extension
\* filter .txt returns a.txt then c/d.txt, 15 bytes in all, and a scan with
\* no extension filter and search text ERROR returns b.log alone.
ScenarioResults ==
    (fs = ScenarioTree /\ ScanCompleted) =>
        LET paths == [k \in 1..Len(scan.files) |-> pathString(scan.files[k].relativePath)]
        IN /\ (Given(OptDepth, <<"1">>) /\ Given(OptExt, <<".", "t", "x", "t">>))
              => /\ paths = << <<"a", ".", "t", "x", "t">>,
                               <<"c", "/", "d", ".", "t", "x", "t">> >>
                 /\ Whole(totalSize(scan.files)) = Whole(ToBig(15))
           /\ (Given(OptSearch, <<"E", "R", "R", "O", "R">>) /\ ~Among(OptExt, call.argv))
              => paths = << <<"b", ".", "l", "o", "g">> >>

\* the run with depth 1 and extension .txt on the scenario's root has ended
\* after reporting two files
ScenarioResultsWitness ==
    /\ fs = ScenarioTree
    /\ pc = "exited"
    /\ Given(OptDepth, <<"1">>)
    /\ Given(OptExt, <<".", "t", "x", "t">>)
    /\ Len(scan.files) = 2
    /\ Printed(<<"\nFound ", "2", " files">>)

----------------------------------------------------------------------------
(* Claims about termination (specification SpecCycle) *)

HasCycle(fsys) == \E i \in 1..Len(fsys) : "link" \in DOMAIN fsys[i]

\* C21: with a finite depth limit d the run ends on every directory
\* structure, one with a cycle included: no call of scanDirectory deeper than
\* d lists its directory, at most d + 2 calls are ever active, and every run
\* that starts its scan reaches the end of main and exits with code 0.
DepthBoundTerminates ==
    /\ [](pc = "scan" =>
            /\ ~options.depth.inf
            /\ Len(scan.stack) <= options.depth.n + 2
            /\ \A f \in 1..Len(scan.stack) :
                  scan.stack[f].listed => scan.stack[f].depth <= options.depth.n)
    /\ (pc = "scan") ~> (pc = "exited" /\ exitCode = Some(0))

\* a run on a structure with a cycle has ended after listing the linked
\* directory through the link and printing the tree
DepthBoundTerminatesWitness ==
    /\ pc = "exited"
    /\ exitCode = Some(0)
    /\ HasCycle(fs)
    /\ ScanCompleted
    /\ \E k \in 1..Len(scan.listings) : "link" \in DOMAIN fs[scan.listings[k]]
    /\ Printed(<<"\nDirectory Tree">>)
    /\ options.depth.n = MaxCycleDepth

----------------------------------------------------------------------------
(* Claims about the wildcards of the name test (specification SpecName) *)

IsExample(name, pattern) ==
    /\ pc = "returned"
    /\ call.fileName = name
    /\ call.pattern = Some(pattern)

\* C22: in a name pattern '*' stands for zero or more characters and '?' for
\* exactly one, letters being compared whatever their case: for a pattern of
\* letters and wildcards the test accepts every name the glob matches and
\* rejects every name no part of which the glob matches; "*.test.*" matches
\* "app.test.js" and not "app.js", "config.*" matches "config.json", and an
\* absent pattern matches every name.
NameWildcards ==
    pc = "returned" =>
        /\ ~IsSet(call.pattern) => ret = Returned(TRUE)
        /\ (IsSet(call.pattern) /\ OnlyLettersAndWildcards(call.pattern[1]))
           => /\ ~ret.throws
              /\ GlobMatchesWhole(call.pattern[1], call.fileName) => ret.value
              /\ ret.value => GlobMatchesSomewhere(call.pattern[1], call.fileName)
        /\ IsExample(<<"a", "p", "p", ".", "t", "e", "s", "t", ".", "j", "s">>,
                     <<"*", ".", "t", "e", "s", "t", ".", "*">>)
           => ret = Returned(TRUE)
        /\ IsExample(<<"A", "p", "p", ".", "T", "e", "s", "t", ".", "J", "S">>,
                     <<"*", ".", "t", "e", "s", "t", ".", "*">>)
           => ret = Returned(TRUE)
        /\ IsExample(<<"a", "p", "p", ".", "j", "s">>,
                     <<"*", ".", "t", "e", "s", "t", ".", "*">>)
           => ret = Returned(FALSE)
        /\ IsExample(<<"c", "o", "n", "f", "i", "g", ".", "j", "s", "o", "n">>,
                     <<"c", "o", "n", "f", "i", "g", ".", "*">>)
           => ret = Returned(TRUE)
        /\ IsExample(<<"a", "p", "p", ".", "j", "s">>, <<"?", "p", "p", ".", "j", "?">>)
           => ret = Returned(TRUE)
        /\ IsExample(<<"a", "p", "p", ".", "j", "s">>, <<"a", "p", "p", "*">>)
           => ret = Returned(TRUE)

\* the test files' pattern has accepted a name spelled in capitals
NameWildcardsWitness ==
    /\ IsExample(<<"A", "p", "p", ".", "T", "e", "s", "t", ".", "J", "S">>,
                 <<"*", ".", "t", "e", "s", "t", ".", "*">>)
    /\ ret.value

----------------------------------------------------------------------------
(* Claims about ConfigManager (specification SpecConfig) *)

ProbeChars == KeyChars \cup {"b"}

IsPrefix(s, t) == Len(s) <= Len(t) /\ SubSeq(t, 1, Len(s)) = s

\* the key path q does not lie on the path of the key path k: neither
\* leads through the other
OutsidePath(q, k) ==
    LET qs == splitKeyPath(q, <<>>)
        ks == splitKeyPath(k, <<>>)
    IN ~IsPrefix(qs, ks) /\ ~IsPrefix(ks, qs)

\* C23: whatever the configuration holds, set(k, v) completes, a following
\* get(k) returns v, and get of every key path outside the path of k returns
\* what it returned before the set.
DeepAccess ==
    [][/\ (pc = "ready" /\ call'.fn = "set") =>
              /\ ~ret'.throws
              /\ get(manager'.config, call'.keyPath) = call'.value
              /\ \A q \in SeqsUpTo(ProbeChars, MaxKeyLen) :
                    OutsidePath(q, call'.keyPath) =>
                        get(manager'.config, q) = get(manager.config, q)
       /\ (pc = "updated" /\ pc' = "returned" /\ call'.keyPath = call.keyPath) =>
              ret' = Returned(call.value)]_vars

----------------------------------------------------------------------------
(* Claims about matchesSizeFilter (specification SpecSizeTest) *)

\* the file size compared with the threshold of the filter: negative, zero
\* or positive
SizeAgainstThreshold ==
    BigCompare(BigScale(ToBig(call.fileSize), call.sizeFilter[1].bytes.den),
               call.sizeFilter[1].bytes)

\* the comparison the operator op writes fails on the outcome cmp; an
\* operator begins with the relation and "=" after > or < admits equality
ViolatesComparison(op, cmp) ==
    IF op[1] = ">" THEN IF Len(op) = 2 THEN cmp < 0 ELSE cmp <= 0
    ELSE IF op[1] = "<" THEN IF Len(op) = 2 THEN cmp > 0 ELSE cmp >= 0
    ELSE cmp # 0

\* C24: matchesSizeFilter passes every file without a size filter; with
\* one of the operators > < = >= <= it returns the outcome of that
\* comparison, and with every filter parseSizeFilter produces it rejects
\* the sizes that violate the comparison the filter was written with.
SizeTestCompares ==
    pc = "tested" =>
        IF ~IsSet(call.sizeFilter) THEN ret = Returned(TRUE)
        ELSE /\ IsSizeOperator(call.sizeFilter[1].operator) =>
                  ret = Returned(~ViolatesComparison(call.sizeFilter[1].operator,
                                                     SizeAgainstThreshold))
             /\ ViolatesComparison(call.sizeFilter[1].operator, SizeAgainstThreshold) =>
                  ret = Returned(FALSE)

----------------------------------------------------------------------------
(* Claims about the content test of the scan (specification SpecFilter) *)

\* the file fs[i] passes the extension, name and size tests
PassesCheapTests(i) ==
    /\ fs[i].kind = "file"
    /\ matchesExtension(fs[i].name, options.extensions)
    /\ ~matchesNamePattern(fs[i].name, options.namePattern).throws
    /\ matchesNamePattern(fs[i].name, options.namePattern).value
    /\ matchesSizeFilter(fs[i].size, options.sizeFilter)

\* C25: at every moment of a scan, each file whose content has been read
\* had passed the extension, name and size tests, and no file has been read
\* when no search text is given.
ContentReadLast ==
    pc \in {"scan", "scanned"} =>
        /\ \A k \in 1..Len(scan.reads) : PassesCheapTests(scan.reads[k])
        /\ ~IsSet(options.searchText) => scan.reads = <<>>

\* a finished scan with search text that read a file and left unread a
\* file failing the extension test and a file failing a later test
ContentReadLastWitness ==
    /\ pc = "scanned"
    /\ IsSet(options.searchText)
    /\ scan.reads # <<>>
    /\ \E i \in 2..Len(fs) :
          /\ fs[i].kind = "file"
          /\ ~matchesExtension(fs[i].name, options.extensions)
          /\ Count(i, scan.reads) = 0
    /\ \E i \in 2..Len(fs) :
          /\ fs[i].kind = "file"
          /\ matchesExtension(fs[i].name, options.extensions)
          /\ ~PassesCheapTests(i)
          /\ Count(i, scan.reads) = 0

----------------------------------------------------------------------------
(* Claims about the order of the result collection (specification Spec) *)

\* the entries leading from the root to entry i, i last
RECURSIVE PathTo(_, _)
PathTo(fsys, i) ==
    IF i = Root THEN <<>> ELSE Append(PathTo(fsys, fsys[i].parent), i)

\* entry i comes before entry j in the pre-order walk: where their paths
\* part, i's path goes through the entry enumerated earlier (the entries of a
\* directory are enumerated in the order of their indices)
PreorderBefore(fsys, i, j) ==
    LET p == PathTo(fsys, i)
        q == PathTo(fsys, j)
    IN \/ Len(p) < Len(q) /\ SubSeq(q, 1, Len(p)) = p
       \/ \E k \in 1..Len(p) :
             /\ k <= Len(q)
             /\ SubSeq(p, 1, k - 1) = SubSeq(q, 1, k - 1)
             /\ p[k] < q[k]

\* C26: the records of the result collection stand in pre-order: a record
\* stands before another exactly as its file comes before the other's in
\* the walk, the matches of a subdirectory together at the place of that
\* subdirectory among its siblings; nothing is sorted or merged.
ResultsInPreorder ==
    pc = "scanned" =>
        \A k \in 1..Len(scan.files) : \A m \in 1..Len(scan.files) :
            k < m => PreorderBefore(fs, scan.files[k].node, scan.files[m].node)

\* a finished scan whose first record is a file of a subdirectory and whose
\* second is a file of the root enumerated after that subdirectory, though
\* its index and its relative path are the smaller ones
ResultsInPreorderWitness ==
    /\ pc = "scanned"
    /\ Len(scan.files) = 2
    /\ fs[scan.files[1].node].parent # Root
    /\ fs[scan.files[2].node].parent = Root
    /\ scan.files[2].node < scan.files[1].node
    /\ scan.files[2].relativePath = <<"b">>
    /\ scan.files[1].relativePath = <<<<"c">>, <<"a", ".", "T">>>>

----------------------------------------------------------------------------
(* Claims about displayTree (specification SpecTree) *)

\* where the connector stands in a printed line: after the prefix
ConnectorAt(text) ==
    CHOOSE k \in 1..Len(text) :
        /\ text[k] \in {Tee, Corner}
        /\ \A m \in 1..(k - 1) : text[m] \notin {Tee, Corner}

\* the depth of the call that printed the line: one prefix piece per level
LevelOf(line) == ConnectorAt(line.text) - 1

IsDirectoryLine(line) == line.stream = "log" /\ line.text[Len(line.text)] = "/"
IsFileLine(line) == line.stream = "log" /\ line.text[Len(line.text)] = ")"

\* the name a line of a directory or a file shows
PrintedName(line) ==
    LET text == line.text
        from == ConnectorAt(text) + 1
        to == IF IsDirectoryLine(line) THEN Len(text) - 1
              ELSE (CHOOSE k \in from..Len(text) :
                        text[k] = " (" /\ \A m \in from..(k - 1) : text[m] # " (") - 1
    IN SubSeq(text, from, to)

\* the lines after line k that are not below it: the first is its next
\* sibling if it stands at the same level
NotBelow(lines, k) == {m \in (k + 1)..Len(lines) : LevelOf(lines[m]) <= LevelOf(lines[k])}

HasNextSibling(lines, k) ==
    /\ NotBelow(lines, k) # {}
    /\ LevelOf(lines[CHOOSE m \in NotBelow(lines, k) : \A n \in NotBelow(lines, k) : m <= n])
          = LevelOf(lines[k])

NextSibling(lines, k) ==
    lines[CHOOSE m \in NotBelow(lines, k) : \A n \in NotBelow(lines, k) : m <= n]

\* entry i is shown: it lies within the depth, and the directories above it
\* can be listed and hold no entry that cannot be stat'ed
Shown(fsys, maxDepth, i) ==
    /\ maxDepth.inf \/ DepthOf(fsys, i) <= maxDepth.n
    /\ \A d \in Ancestors(fsys, i) :
          /\ fsys[d].listOk
          /\ \A j \in 1..Len(fsys) : fsys[j].parent = d => fsys[j].statOk

----------------------------------------------------------------------------
(* Claims about the error line of displayTree (specification SpecTree) *)

\* displayTree cannot read directory d: listing it fails, or the stat of one
\* of its entries
Unreadable(fsys, d) ==
    /\ fsys[d].kind = "dir"
    /\ \/ ~fsys[d].listOk
       \/ \E j \in 1..Len(fsys) : fsys[j].parent = d /\ ~fsys[j].statOk

\* the tree with every such directory readable and empty
EmptiedUnreadable(fsys) ==
    [i \in 1..Len(fsys) |->
        IF \E d \in Ancestors(fsys, i) : Unreadable(fsys, d)
        THEN [fsys[i] EXCEPT !.parent = 0, !.statOk = TRUE, !.listOk = TRUE]
        ELSE [fsys[i] EXCEPT !.listOk = TRUE]]

\* displayTree is called on directory d and gets as far as reading it
Rendered(fsys, maxDepth, d) ==
    \/ d = Root
    \/ /\ d # Root
       /\ Shown(fsys, maxDepth, d)
       /\ maxDepth.inf \/ DepthOf(fsys, d) + 1 <= maxDepth.n

IsErrorLine(line) == line.stream = "warn"
IsLogLine(line) == line.stream = "log"

\* C28: a directory displayTree cannot read gets exactly one error line,
\* directly below the directory's own line and one level deeper, and
\* nothing else; all other lines are those of the tree in which that
\* directory is empty.
TreeErrorLine ==
    (pc = "returned" /\ call.fn = "displayTree") =>
        /\ SelectSeq(ret.lines, IsLogLine)
              = displayTree(EmptiedUnreadable(fs), Root, 0, call.maxDepth, <<>>).lines
        /\ Cardinality({k \in 1..Len(ret.lines) : IsErrorLine(ret.lines[k])})
              = Cardinality({d \in 1..Len(fs) :
                                Unreadable(fs, d) /\ Rendered(fs, call.maxDepth, d)})
        /\ \A k \in 1..Len(ret.lines) :
              IsErrorLine(ret.lines[k]) =>
                  IF k = 1 THEN Unreadable(fs, Root) /\ LevelOf(ret.lines[k]) = 0
                  ELSE /\ IsDirectoryLine(ret.lines[k - 1])
                       /\ LevelOf(ret.lines[k]) = LevelOf(ret.lines[k - 1]) + 1
                       /\ \E d \in 2..Len(fs) :
                             /\ Unreadable(fs, d)
                             /\ fs[d].name = PrintedName(ret.lines[k - 1])
                             /\ DepthOf(fs, d) = LevelOf(ret.lines[k - 1])

\* a tree printed with the line of the unlistable directory u, its error
\* line below it, and after that the line of a file of the root
TreeErrorLineWitness ==
    /\ pc = "returned" /\ call.fn = "displayTree"
    /\ Len(ret.lines) = 3
    /\ ret.lines[1].text = <<Tee, "u", "/">>
    /\ ret.lines[2] = TreeError(<<Bar>>, "scandir")
    /\ IsFileLine(ret.lines[3])
    /\ LevelOf(ret.lines[3]) = 0

----------------------------------------------------------------------------
(* Claims about the record-based reports (specification SpecMain) *)

\* the lines printed below a report's heading and rule, up to the next
\* heading or the closing line
SectionOf(header) ==
    LET h == CHOOSE k \in 1..Len(console) : console[k].text = header
        ends == {k \in (h + 1)..Len(console) :
                    console[k].text \in ReportHeaders \/ k = Len(console)}
        e == CHOOSE k \in ends : \A m \in ends : k <= m
    IN SubSeq(console, h + 2, e - 1)

\* k written with three digits
Number3(k) ==
    <<Digits[((k \div 100) % 10) + 1], Digits[((k \div 10) % 10) + 1], Digits[(k % 10) + 1]>>

RECURSIVE SumOfSizes(_)
SumOfSizes(files) ==
    IF files = <<>> THEN 0 ELSE Head(files).size + SumOfSizes(Tail(files))

\* what a text shows between the first token a and the first token b
Between(text, a, b) ==
    SubSeq(text,
           (CHOOSE k \in 1..Len(text) : text[k] = a /\ \A m \in 1..(k - 1) : text[m] # a) + 1,
           (CHOOSE k \in 1..Len(text) : text[k] = b /\ \A m \in 1..(k - 1) : text[m] # b) - 1)

\* where the k-th object of the file list of the JSON document begins
JsonEntryAt(text, k) ==
    CHOOSE p \in 1..Len(text) :
        /\ text[p] = "{name: "
        /\ Cardinality({m \in 1..p : text[m] = "{name: "}) = k

\* the k-th object of the file list, up to the next one or the end
JsonEntry(text, k) ==
    SubSeq(text, JsonEntryAt(text, k),
           IF \E p \in 1..Len(text) :
                 text[p] = "{name: " /\ Cardinality({m \in 1..p : text[m] = "{name: "}) = k + 1
           THEN JsonEntryAt(text, k + 1) - 1
           ELSE Len(text))

\* C29: in a run that completes its scan, the flat list, the file list of
\* the JSON document and the rows of the CSV output, whichever are printed,
\* have one entry per record of the result collection, in its order, the
\* flat list numbered from 001; the total of the statistics, totalFiles and
\* totalSize of the JSON document and the closing line give the length of
\* the collection and the sum of its sizes.
ConsistentReports ==
    (pc = "exited" /\ exitCode = Some(0) /\ ScanCompleted) =>
        LET files == scan.files
            n == Len(scan.files)
        IN /\ console[Len(console)].text = <<"\nFound ">> \o NatToString(n) \o <<" files">>
           /\ Printed(<<"\nFound Files">>) =>
                 LET list == SectionOf(<<"\nFound Files">>)
                 IN IF n = 0
                    THEN Len(list) = 1 /\ ~IsDigit(list[1].text[1])
                    ELSE /\ Len(list) = n
                         /\ \A k \in 1..n :
                               startsWith(list[k].text,
                                          Number3(k) \o <<": ">>
                                          \o pathString(files[k].relativePath) \o <<" (">>)
           /\ Printed(<<"\nCSV Output">>) =>
                 LET rows == SectionOf(<<"\nCSV Output">>)
                 IN /\ Len(rows) = n + 1
                    /\ \A k \in 1..n :
                          startsWith(rows[k + 1].text,
                                     <<"\"">> \o files[k].name
                                     \o <<"\",\"">> \o pathString(files[k].relativePath)
                                     \o <<"\",">> \o NatToString(files[k].size) \o <<",\"">>)
           /\ Printed(<<"\nJSON Output">>) =>
                 LET document == SectionOf(<<"\nJSON Output">>)
                     text == document[1].text
                 IN /\ Len(document) = 1
                    /\ Between(text, ", totalFiles: ", ", totalSize: ") = NatToString(n)
                    /\ Between(text, ", totalSize: ", ", files: [")
                          = NatToString(SumOfSizes(files))
                    /\ Cardinality({p \in 1..Len(text) : text[p] = "{name: "}) = n
                    /\ \A k \in 1..n :
                          /\ startsWith(JsonEntry(text, k),
                                        <<"{name: ">> \o files[k].name \o <<", path: ">>)
                          /\ includes(JsonEntry(text, k),
                                      <<", relativePath: ">>
                                      \o pathString(files[k].relativePath)
                                      \o <<", size: ">> \o NatToString(files[k].size)
                                      \o <<", sizeHuman: ">>)
           /\ Printed(<<"\nStatistics">>) =>
                 Printed(<<"Total Files: ">> \o NatToString(n))

\* a run with --stats and --json that found three files of 2063 bytes in
\* all, one of them in a subdirectory
ConsistentReportsWitness ==
    /\ pc = "exited" /\ exitCode = Some(0) /\ ScanCompleted
    /\ Len(scan.files) = 3
    /\ SumOfSizes(scan.files) = 2063
    /\ \E k \in 1..3 : Len(scan.files[k].relativePath) = 2
    /\ Printed(<<"\nStatistics">>)
    /\ Printed(<<"Total Files: ", "3">>)
    /\ Printed(<<"\nJSON Output">>)
    /\ Between(SectionOf(<<"\nJSON Output">>)[1].text, ", totalSize: ", ", files: [")
          = <<"2", "0", "6", "3">>

----------------------------------------------------------------------------
(* Claims about the rounding of formatBytes (specification SpecFormat) *)

\* the unit formatBytes(call.bytes) ends with
PrintedUnit ==
    <<<<"B">>, <<"K", "B">>, <<"M", "B">>, <<"G", "B">>>>[ExpectedUnitIndex(call.bytes) + 1]

\* C30: for a whole byte count below 1024^3 the number formatBytes prints is
\* below 1024.00: rounding to two decimals never makes it reach 1024 in a
\* unit smaller than GB.
RoundingStaysBelow1024 ==
    (pc = "returned" /\ BigCompare(call.bytes, ToBig(1024 * 1024 * 1024)) < 0) =>
        PrintedCents(ret, PrintedUnit) < 102400

====
